---- MODULE Spec2Model ----
(***************************************************************************)
(* Verification model of the reflector dataplane:                          *)
(*   - the frame codec, classifier and reflect kernel (packet.c),          *)
(*   - the worker loop and its batched statistics (core.c),                *)
(*   - the buffer ownership rules of the AF_XDP, AF_PACKET and BPF         *)
(*     backends (xdp_platform.c, packet_platform.c, bpf_platform.c).       *)
(*                                                                         *)
(* A frame is a buffer `data` (a sequence of bytes, offset k of the C code *)
(* is element k+1) together with its length `len` <= Len(data).  The bytes *)
(* past `len` are the slack of the receive buffer the frame lies in.       *)
(***************************************************************************)
EXTENDS Integers, Sequences, FiniteSets, TLC

(***************************************************************************)
(* Program constants (include/reflector.h)                                 *)
(***************************************************************************)
ETH_DST_OFFSET == 0
ETH_SRC_OFFSET == 6
ETH_TYPE_OFFSET == 12
ETH_HDR_LEN == 14
IP_VER_IHL_OFFSET == 0
IP_PROTO_OFFSET == 9
IP_SRC_OFFSET == 12
IP_DST_OFFSET == 16
IP_HDR_MIN_LEN == 20
UDP_SRC_PORT_OFFSET == 0
UDP_DST_PORT_OFFSET == 2
UDP_HDR_LEN == 8
ITO_SIG_OFFSET == 5
ITO_SIG_LEN == 7
CUSTOM_SIG_LEN == 7
MIN_ITO_PACKET_LEN == 54
MIN_CHECKSUM_PACKET_LEN == 42
ETH_P_IP == 2048
ETH_P_IPV6 == 34525
ETH_P_8021Q == 33024
ETH_P_8021AD == 34984
VLAN_HDR_LEN == 4
IPV6_HDR_LEN == 40
IPV6_NEXT_HDR_OFFSET == 6
IPV6_SRC_OFFSET == 8
IPV6_DST_OFFSET == 24
IPV6_ADDR_LEN == 16
IPPROTO_UDP == 17

ITO_SIG_PROBEOT == <<80, 82, 79, 66, 69, 79, 84>>
ITO_SIG_DATAOT == <<68, 65, 84, 65, 58, 79, 84>>
ITO_SIG_LATENCY == <<76, 65, 84, 69, 78, 67, 89>>
CUSTOM_SIG_RFC2544 == <<82, 70, 67, 50, 53, 52, 52>>
CUSTOM_SIG_Y1564 == <<89, 46, 49, 53, 54, 52, 32>>

\* reflect_mode_t
REFLECT_MODE_MAC == 0
REFLECT_MODE_MAC_IP == 1
REFLECT_MODE_ALL == 2

\* sig_filter_t
SIG_FILTER_ALL == 0
SIG_FILTER_ITO == 1
SIG_FILTER_RFC2544 == 2
SIG_FILTER_Y1564 == 3
SIG_FILTER_CUSTOM == 4

\* sig_type_t
SIG_TYPE_PROBEOT == 0
SIG_TYPE_DATAOT == 1
SIG_TYPE_LATENCY == 2
SIG_TYPE_RFC2544 == 3
SIG_TYPE_Y1564 == 4
SIG_TYPE_UNKNOWN == 5

(***************************************************************************)
(* Bounds of the model                                                     *)
(***************************************************************************)
\* capacity of the buffer a frame lies in (covers every unchecked access of
\* the classifier and the reflect kernels: 14 + 4*15 + 8 + 5 + 7 = 94)
BufLen == 96

(***************************************************************************)
(* Byte-level helpers                                                      *)
(***************************************************************************)
\* data[off] of the C code
Rd(data, off) == data[off + 1]

\* the n bytes at data[off .. off+n-1]
Slice(data, off, n) == SubSeq(data, off + 1, off + n)

\* memcpy(&data[off], bytes, Len(bytes))
SetBytes(data, off, bytes) ==
    SubSeq(data, 1, off) \o bytes \o SubSeq(data, off + Len(bytes) + 1, Len(data))

\* (data[off] << 8) | data[off + 1], also ntohs of the 16-bit word at off
Rd16(data, off) == Rd(data, off) * 256 + Rd(data, off + 1)

\* the two bytes a store of htons(v) leaves in memory
Bytes16(v) == <<v \div 256, v % 256>>

(***************************************************************************)
(* Classifier: is_ito_packet                                               *)
(***************************************************************************)
\* is_ito_packet without the destination port test of packet.c:159-169
is_ito_packet_anyPort(data, len, config) ==
    IF len < MIN_ITO_PACKET_LEN THEN FALSE
    ELSE IF Slice(data, ETH_DST_OFFSET, 6) # config.mac THEN FALSE
    ELSE IF config.filter_oui /\ Slice(data, ETH_SRC_OFFSET, 3) # config.oui THEN FALSE
    ELSE IF Rd16(data, ETH_TYPE_OFFSET) # ETH_P_IP THEN FALSE
    ELSE
      LET ver_ihl == Rd(data, ETH_HDR_LEN + IP_VER_IHL_OFFSET)
          version == ver_ihl \div 16
          ihl == ver_ihl % 16
          ip_hdr_len == ihl * 4
          udp_offset == ETH_HDR_LEN + ip_hdr_len
          udp_payload_offset == udp_offset + UDP_HDR_LEN
          sig == Slice(data, udp_payload_offset + ITO_SIG_OFFSET, ITO_SIG_LEN)
          filter == config.sig_filter
      IN
        IF version # 4 \/ ihl < 5 THEN FALSE
        ELSE IF Rd(data, ETH_HDR_LEN + IP_PROTO_OFFSET) # IPPROTO_UDP THEN FALSE
        ELSE IF len < udp_payload_offset + ITO_SIG_OFFSET + ITO_SIG_LEN THEN FALSE
        ELSE IF (filter = SIG_FILTER_ALL \/ filter = SIG_FILTER_ITO)
                /\ (sig = ITO_SIG_PROBEOT \/ sig = ITO_SIG_DATAOT \/ sig = ITO_SIG_LATENCY)
             THEN TRUE
        ELSE IF (filter = SIG_FILTER_ALL \/ filter = SIG_FILTER_CUSTOM
                    \/ filter = SIG_FILTER_RFC2544)
                /\ sig = CUSTOM_SIG_RFC2544
             THEN TRUE
        ELSE IF (filter = SIG_FILTER_ALL \/ filter = SIG_FILTER_CUSTOM
                    \/ filter = SIG_FILTER_Y1564)
                /\ sig = CUSTOM_SIG_Y1564
             THEN TRUE
        ELSE FALSE

\* is_ito_packet
is_ito_packet(data, len, config) ==
    IF len < MIN_ITO_PACKET_LEN THEN FALSE
    ELSE IF Slice(data, ETH_DST_OFFSET, 6) # config.mac THEN FALSE
    ELSE IF config.filter_oui /\ Slice(data, ETH_SRC_OFFSET, 3) # config.oui THEN FALSE
    ELSE IF Rd16(data, ETH_TYPE_OFFSET) # ETH_P_IP THEN FALSE
    ELSE
      LET ver_ihl == Rd(data, ETH_HDR_LEN + IP_VER_IHL_OFFSET)
          version == ver_ihl \div 16
          ihl == ver_ihl % 16
          ip_hdr_len == ihl * 4
          udp_offset == ETH_HDR_LEN + ip_hdr_len
          udp_payload_offset == udp_offset + UDP_HDR_LEN
          sig == Slice(data, udp_payload_offset + ITO_SIG_OFFSET, ITO_SIG_LEN)
          filter == config.sig_filter
      IN
        IF version # 4 \/ ihl < 5 THEN FALSE
        ELSE IF Rd(data, ETH_HDR_LEN + IP_PROTO_OFFSET) # IPPROTO_UDP THEN FALSE
        ELSE IF config.ito_port # 0
                /\ Rd16(data, udp_offset + UDP_DST_PORT_OFFSET) # config.ito_port THEN FALSE
        ELSE IF len < udp_payload_offset + ITO_SIG_OFFSET + ITO_SIG_LEN THEN FALSE
        ELSE IF (filter = SIG_FILTER_ALL \/ filter = SIG_FILTER_ITO)
                /\ (sig = ITO_SIG_PROBEOT \/ sig = ITO_SIG_DATAOT \/ sig = ITO_SIG_LATENCY)
             THEN TRUE
        ELSE IF (filter = SIG_FILTER_ALL \/ filter = SIG_FILTER_CUSTOM
                    \/ filter = SIG_FILTER_RFC2544)
                /\ sig = CUSTOM_SIG_RFC2544
             THEN TRUE
        ELSE IF (filter = SIG_FILTER_ALL \/ filter = SIG_FILTER_CUSTOM
                    \/ filter = SIG_FILTER_Y1564)
                /\ sig = CUSTOM_SIG_Y1564
             THEN TRUE
        ELSE FALSE

\* get_ito_signature_type
get_ito_signature_type(data, len) ==
    LET ihl == Rd(data, ETH_HDR_LEN + IP_VER_IHL_OFFSET) % 16
        udp_payload_offset == ETH_HDR_LEN + ihl * 4 + UDP_HDR_LEN
        sig == Slice(data, udp_payload_offset + ITO_SIG_OFFSET, ITO_SIG_LEN)
    IN  IF len < udp_payload_offset + ITO_SIG_OFFSET + ITO_SIG_LEN THEN SIG_TYPE_UNKNOWN
        ELSE IF sig = ITO_SIG_PROBEOT THEN SIG_TYPE_PROBEOT
        ELSE IF sig = ITO_SIG_DATAOT THEN SIG_TYPE_DATAOT
        ELSE IF sig = ITO_SIG_LATENCY THEN SIG_TYPE_LATENCY
        ELSE IF sig = CUSTOM_SIG_RFC2544 THEN SIG_TYPE_RFC2544
        ELSE IF sig = CUSTOM_SIG_Y1564 THEN SIG_TYPE_Y1564
        ELSE SIG_TYPE_UNKNOWN

\* the offsets off .. off+n-1
Span(off, n) == off..(off + n - 1)

\* the offsets of data that a call of is_ito_packet reads, in the order of
\* its tests: each test reads its field, then returns or goes on
is_ito_packet_reads(data, len, config) ==
    LET ihl == Rd(data, ETH_HDR_LEN + IP_VER_IHL_OFFSET) % 16
        udp_offset == ETH_HDR_LEN + ihl * 4
        udp_payload_offset == udp_offset + UDP_HDR_LEN
        r_mac == Span(ETH_DST_OFFSET, 6)
        r_oui == r_mac \cup (IF config.filter_oui THEN Span(ETH_SRC_OFFSET, 3) ELSE {})
        r_type == r_oui \cup Span(ETH_TYPE_OFFSET, 2)
        r_ver == r_type \cup {ETH_HDR_LEN + IP_VER_IHL_OFFSET}
        r_proto == r_ver \cup {ETH_HDR_LEN + IP_PROTO_OFFSET}
        r_port == r_proto \cup (IF config.ito_port # 0
                                THEN Span(udp_offset + UDP_DST_PORT_OFFSET, 2) ELSE {})
        r_sig == r_port \cup Span(udp_payload_offset + ITO_SIG_OFFSET, ITO_SIG_LEN)
    IN
      IF len < MIN_ITO_PACKET_LEN THEN {}
      ELSE IF Slice(data, ETH_DST_OFFSET, 6) # config.mac THEN r_mac
      ELSE IF config.filter_oui /\ Slice(data, ETH_SRC_OFFSET, 3) # config.oui THEN r_oui
      ELSE IF Rd16(data, ETH_TYPE_OFFSET) # ETH_P_IP THEN r_type
      ELSE IF Rd(data, ETH_HDR_LEN) \div 16 # 4 \/ ihl < 5 THEN r_ver
      ELSE IF Rd(data, ETH_HDR_LEN + IP_PROTO_OFFSET) # IPPROTO_UDP THEN r_proto
      ELSE IF config.ito_port # 0
              /\ Rd16(data, udp_offset + UDP_DST_PORT_OFFSET) # config.ito_port THEN r_port
      ELSE IF len < udp_payload_offset + ITO_SIG_OFFSET + ITO_SIG_LEN THEN r_port
      ELSE r_sig

\* the offsets of data that a call of is_ito_packet_extended reads
is_ito_packet_extended_reads(data, len, config) ==
    LET outer == Rd16(data, ETH_TYPE_OFFSET)
        tagged == outer = ETH_P_8021Q \/ outer = ETH_P_8021AD
        ethertype == IF tagged THEN Rd16(data, ETH_HDR_LEN + 2) ELSE outer
        ip_offset == IF tagged THEN ETH_HDR_LEN + VLAN_HDR_LEN ELSE ETH_HDR_LEN
        ver_ihl == Rd(data, ip_offset + IP_VER_IHL_OFFSET)
        v6 == ethertype = ETH_P_IPV6
        ip_hdr_len == IF v6 THEN IPV6_HDR_LEN ELSE (ver_ihl % 16) * 4
        ip_proto == IF v6 THEN Rd(data, ip_offset + IPV6_NEXT_HDR_OFFSET)
                    ELSE Rd(data, ip_offset + IP_PROTO_OFFSET)
        udp_offset == ip_offset + ip_hdr_len
        udp_payload_offset == udp_offset + UDP_HDR_LEN
        r_mac == Span(ETH_DST_OFFSET, 6)
        r_oui == r_mac \cup (IF config.filter_oui THEN Span(ETH_SRC_OFFSET, 3) ELSE {})
        r_type == r_oui \cup Span(ETH_TYPE_OFFSET, 2)
        r_inner == r_type \cup (IF tagged THEN Span(ETH_HDR_LEN + 2, 2) ELSE {})
        r_ver == r_inner \cup {ip_offset + IP_VER_IHL_OFFSET}
        r_proto == IF v6 THEN r_inner \cup {ip_offset + IPV6_NEXT_HDR_OFFSET}
                   ELSE r_ver \cup {ip_offset + IP_PROTO_OFFSET}
        r_port == r_proto \cup (IF config.ito_port # 0
                                THEN Span(udp_offset + UDP_DST_PORT_OFFSET, 2) ELSE {})
        r_sig == r_port \cup Span(udp_payload_offset + ITO_SIG_OFFSET, ITO_SIG_LEN)
    IN
      IF len < MIN_ITO_PACKET_LEN THEN {}
      ELSE IF Slice(data, ETH_DST_OFFSET, 6) # config.mac THEN r_mac
      ELSE IF config.filter_oui /\ Slice(data, ETH_SRC_OFFSET, 3) # config.oui THEN r_oui
      ELSE IF tagged /\ ~config.enable_vlan THEN r_type
      ELSE IF tagged /\ len < ETH_HDR_LEN + VLAN_HDR_LEN + IP_HDR_MIN_LEN THEN r_type
      ELSE IF ethertype = ETH_P_IP /\ len < ip_offset + IP_HDR_MIN_LEN THEN r_inner
      ELSE IF ethertype = ETH_P_IP /\ (ver_ihl \div 16 # 4 \/ ver_ihl % 16 < 5) THEN r_ver
      ELSE IF v6 /\ ~config.enable_ipv6 THEN r_inner
      ELSE IF v6 /\ len < ip_offset + IPV6_HDR_LEN THEN r_inner
      ELSE IF ethertype # ETH_P_IP /\ ~v6 THEN r_inner
      ELSE IF ip_proto # IPPROTO_UDP THEN r_proto
      ELSE IF len < udp_payload_offset + ITO_SIG_OFFSET + ITO_SIG_LEN THEN r_proto
      ELSE IF config.ito_port # 0
              /\ Rd16(data, udp_offset + UDP_DST_PORT_OFFSET) # config.ito_port THEN r_port
      ELSE r_sig

\* is_ito_packet_extended: the return value and the two out-parameters
is_ito_packet_extended(data, len, config) ==
    LET No(v6, vl) == [accept |-> FALSE, is_ipv6 |-> v6, is_vlan |-> vl]
        outer == Rd16(data, ETH_TYPE_OFFSET)
        tagged == outer = ETH_P_8021Q \/ outer = ETH_P_8021AD
        ethertype == IF tagged THEN Rd16(data, ETH_HDR_LEN + 2) ELSE outer
        ip_offset == IF tagged THEN ETH_HDR_LEN + VLAN_HDR_LEN ELSE ETH_HDR_LEN
        ver_ihl == Rd(data, ip_offset + IP_VER_IHL_OFFSET)
        v6 == ethertype = ETH_P_IPV6
        ip_hdr_len == IF v6 THEN IPV6_HDR_LEN ELSE (ver_ihl % 16) * 4
        ip_proto == IF v6 THEN Rd(data, ip_offset + IPV6_NEXT_HDR_OFFSET)
                    ELSE Rd(data, ip_offset + IP_PROTO_OFFSET)
        udp_offset == ip_offset + ip_hdr_len
        udp_payload_offset == udp_offset + UDP_HDR_LEN
        sig == Slice(data, udp_payload_offset + ITO_SIG_OFFSET, ITO_SIG_LEN)
    IN
      IF len < MIN_ITO_PACKET_LEN THEN No(FALSE, FALSE)
      ELSE IF Slice(data, ETH_DST_OFFSET, 6) # config.mac THEN No(FALSE, FALSE)
      ELSE IF config.filter_oui /\ Slice(data, ETH_SRC_OFFSET, 3) # config.oui
           THEN No(FALSE, FALSE)
      ELSE IF tagged /\ ~config.enable_vlan THEN No(FALSE, FALSE)
      ELSE IF tagged /\ len < ETH_HDR_LEN + VLAN_HDR_LEN + IP_HDR_MIN_LEN
           THEN No(FALSE, FALSE)
      ELSE IF ethertype = ETH_P_IP /\ len < ip_offset + IP_HDR_MIN_LEN
           THEN No(FALSE, tagged)
      ELSE IF ethertype = ETH_P_IP /\ (ver_ihl \div 16 # 4 \/ ver_ihl % 16 < 5)
           THEN No(FALSE, tagged)
      ELSE IF v6 /\ ~config.enable_ipv6 THEN No(FALSE, tagged)
      ELSE IF v6 /\ len < ip_offset + IPV6_HDR_LEN THEN No(FALSE, tagged)
      ELSE IF ethertype # ETH_P_IP /\ ~v6 THEN No(FALSE, tagged)
      ELSE IF ip_proto # IPPROTO_UDP THEN No(v6, tagged)
      ELSE IF len < udp_payload_offset + ITO_SIG_OFFSET + ITO_SIG_LEN THEN No(v6, tagged)
      ELSE IF config.ito_port # 0
              /\ Rd16(data, udp_offset + UDP_DST_PORT_OFFSET) # config.ito_port
           THEN No(v6, tagged)
      ELSE [accept |-> sig \in {ITO_SIG_PROBEOT, ITO_SIG_DATAOT, ITO_SIG_LATENCY,
                                CUSTOM_SIG_RFC2544, CUSTOM_SIG_Y1564},
            is_ipv6 |-> v6, is_vlan |-> tagged]

(***************************************************************************)
(* Reflect kernels                                                         *)
(***************************************************************************)
\* SwapFields with the second value read after the first store (a swap that
\* loses a's value)
SwapFields_lost(data, a, b, n) ==
    LET vb == Slice(data, b, n)
        d1 == SetBytes(data, a, vb)
    IN  SetBytes(d1, b, Slice(d1, a, n))

\* the memcpy triple that exchanges data[a..a+n-1] and data[b..b+n-1]:
\* both values are read first, then b's value is stored at a, then a's at b
SwapFields(data, a, b, n) ==
    LET va == Slice(data, a, n)
        vb == Slice(data, b, n)
    IN  SetBytes(SetBytes(data, a, vb), b, va)

\* SwapMac with temp_mac taken after the destination was overwritten
SwapMac_noTemp(data) ==
    LET d1 == SetBytes(data, ETH_DST_OFFSET, Slice(data, ETH_SRC_OFFSET, 6))
    IN  SetBytes(d1, ETH_SRC_OFFSET, Slice(d1, ETH_DST_OFFSET, 6))

\* the MAC exchange through temp_mac
SwapMac(data) ==
    LET temp_mac == Slice(data, ETH_DST_OFFSET, 6)
        d1 == SetBytes(data, ETH_DST_OFFSET, Slice(data, ETH_SRC_OFFSET, 6))
    IN  SetBytes(d1, ETH_SRC_OFFSET, temp_mac)

reflect_packet_inplace_scalar(data, len) ==
    LET d1 == SwapMac(data)
        ihl == Rd(d1, ETH_HDR_LEN + IP_VER_IHL_OFFSET) % 16
        ip_hdr_len == ihl * 4
        ip_offset == ETH_HDR_LEN
        d2 == SwapFields(d1, ip_offset + IP_SRC_OFFSET, ip_offset + IP_DST_OFFSET, 4)
        udp_offset == ETH_HDR_LEN + ip_hdr_len
    IN  SwapFields(d2, udp_offset + UDP_SRC_PORT_OFFSET, udp_offset + UDP_DST_PORT_OFFSET, 2)

\* a 16-byte load at off, a byte shuffle by the index table idx, a 16-byte store
Shuffle16(data, off, idx) ==
    LET blk == Slice(data, off, 16)
    IN  SetBytes(data, off, [i \in 1..16 |-> blk[idx[i] + 1]])

\* Rotate16 as a byte reversal of the 32-bit word (a bswap where the rotate
\* belongs)
Rotate16_bswap(data, off) ==
    LET w == Slice(data, off, 4)
    IN  SetBytes(data, off, <<w[4], w[3], w[2], w[1]>>)

\* *ports = (port_pair >> 16) | (port_pair << 16) on the 4 bytes at off
Rotate16(data, off) ==
    LET w == Slice(data, off, 4)
    IN  SetBytes(data, off, <<w[3], w[4], w[1], w[2]>>)

reflect_packet_inplace_simd(data, len) ==
    LET mac_shuffle == <<6, 7, 8, 9, 10, 11, 0, 1, 2, 3, 4, 5, 12, 13, 14, 15>>
        ip_shuffle == <<4, 5, 6, 7, 0, 1, 2, 3, 8, 9, 10, 11, 12, 13, 14, 15>>
        d1 == Shuffle16(data, 0, mac_shuffle)
        ihl == Rd(d1, ETH_HDR_LEN + IP_VER_IHL_OFFSET) % 16
        ip_hdr_len == ihl * 4
        d2 == Shuffle16(d1, ETH_HDR_LEN + IP_SRC_OFFSET, ip_shuffle)
    IN  Rotate16(d2, ETH_HDR_LEN + ip_hdr_len)

reflect_packet_inplace_neon(data, len) ==
    LET shuffle_indices == <<6, 7, 8, 9, 10, 11, 0, 1, 2, 3, 4, 5, 12, 13, 14, 15>>
        d1 == Shuffle16(data, 0, shuffle_indices)
        ihl == Rd(d1, ETH_HDR_LEN + IP_VER_IHL_OFFSET) % 16
        ip_hdr_len == ihl * 4
        a == ETH_HDR_LEN + IP_SRC_OFFSET
        \* vld1_u32 / vrev64_u32 / vst1_u32 on the 8 bytes at a
        d2 == SetBytes(d1, a, Slice(d1, a + 4, 4) \o Slice(d1, a, 4))
    IN  Rotate16(d2, ETH_HDR_LEN + ip_hdr_len)

\* the kernels a build can dispatch to
Variants == {"sse2", "neon", "scalar"}

reflect_packet_inplace(data, len, variant) ==
    CASE variant = "sse2" -> reflect_packet_inplace_simd(data, len)
      [] variant = "neon" -> reflect_packet_inplace_neon(data, len)
      [] OTHER -> reflect_packet_inplace_scalar(data, len)

(***************************************************************************)
(* Checksums                                                               *)
(***************************************************************************)
RECURSIVE SumWords(_, _, _, _, _)
\* sum of the 16-bit words i = from .. to-1 at base + 2*i, leaving out word skip
SumWords(data, base, from, to, skip) ==
    IF from >= to THEN 0
    ELSE (IF from = skip THEN 0 ELSE Rd16(data, base + 2 * from))
         + SumWords(data, base, from + 1, to, skip)

RECURSIVE Fold16(_)
\* while (sum >> 16) sum = (sum & 0xFFFF) + (sum >> 16)
Fold16(sum) == IF sum \div 65536 = 0 THEN sum ELSE Fold16((sum % 65536) + (sum \div 65536))

\* (uint16_t)~sum
Not16(sum) == 65535 - (sum % 65536)

\* host-order value of the checksum; the caller stores htons of it
calculate_ip_checksum(data, iph, ihl_bytes) ==
    Not16(Fold16(SumWords(data, iph, 0, ihl_bytes \div 2, 5)))

calculate_udp_checksum(data, iph, udph, udp_len) ==
    LET pseudo == Rd16(data, iph + 12) + Rd16(data, iph + 14)
                  + Rd16(data, iph + 16) + Rd16(data, iph + 18)
                  + IPPROTO_UDP + udp_len
        body == SumWords(data, udph, 0, udp_len \div 2, 3)
        odd == IF udp_len % 2 = 1 THEN Rd(data, udph + udp_len - 1) * 256 ELSE 0
        checksum == Not16(Fold16(pseudo + body + odd))
    IN  IF checksum = 0 THEN 65535 ELSE checksum

calculate_udp6_checksum(data, ip6h, udph, udp_len) ==
    LET pseudo == SumWords(data, ip6h + IPV6_SRC_OFFSET, 0, 8, -1)
                  + SumWords(data, ip6h + IPV6_DST_OFFSET, 0, 8, -1)
                  + (udp_len \div 65536) + (udp_len % 65536) + IPPROTO_UDP
        body == SumWords(data, udph, 0, udp_len \div 2, 3)
        odd == IF udp_len % 2 = 1 THEN Rd(data, udph + udp_len - 1) * 256 ELSE 0
        checksum == Not16(Fold16(pseudo + body + odd))
    IN  IF checksum = 0 THEN 65535 ELSE checksum

\* *ip_check = 0; *ip_check = calculate_ip_checksum(iph, ihl)
StoreIpChecksum(data, iph, ihl_bytes) ==
    LET d0 == SetBytes(data, iph + 10, <<0, 0>>)
    IN  SetBytes(d0, iph + 10, Bytes16(calculate_ip_checksum(d0, iph, ihl_bytes)))

\* *udp_check = 0; *udp_check = calculate_udp_checksum(iph, udph, udp_len)
StoreUdpChecksum(data, iph, udph, udp_len) ==
    LET d0 == SetBytes(data, udph + 6, <<0, 0>>)
    IN  SetBytes(d0, udph + 6, Bytes16(calculate_udp_checksum(d0, iph, udph, udp_len)))

StoreUdp6Checksum(data, ip6h, udph, udp_len) ==
    LET d0 == SetBytes(data, udph + 6, <<0, 0>>)
    IN  SetBytes(d0, udph + 6, Bytes16(calculate_udp6_checksum(d0, ip6h, udph, udp_len)))

(***************************************************************************)
(* reflect_packet_with_checksum, reflect_packet_with_mode,                 *)
(* reflect_packet_ipv6                                                     *)
(***************************************************************************)
reflect_packet_with_checksum(data, len, software_checksum, variant) ==
    LET d1 == reflect_packet_inplace(data, len, variant)
        iph == ETH_HDR_LEN
        ihl == (Rd(d1, iph) % 16) * 4
        d2 == StoreIpChecksum(d1, iph, ihl)
        udph == iph + ihl
        udp_len == Rd16(d2, udph + 4)
    IN  IF software_checksum /\ len >= MIN_CHECKSUM_PACKET_LEN
        THEN IF ihl >= IP_HDR_MIN_LEN /\ len >= ETH_HDR_LEN + ihl + UDP_HDR_LEN
             THEN IF len >= ETH_HDR_LEN + ihl + udp_len
                  THEN StoreUdpChecksum(d2, iph, udph, udp_len)
                  ELSE d2
             ELSE d1
        ELSE d1

reflect_packet_with_mode(data, len, mode, software_checksum) ==
    IF len < ETH_HDR_LEN THEN data
    ELSE
      LET d1 == SwapMac(data)
          ihl == Rd(d1, ETH_HDR_LEN + IP_VER_IHL_OFFSET) % 16
          ip_hdr_len == ihl * 4
          ip_offset == ETH_HDR_LEN
          iph == ETH_HDR_LEN
          d2 == SwapFields(d1, ip_offset + IP_SRC_OFFSET, ip_offset + IP_DST_OFFSET, 4)
          udp_offset == ETH_HDR_LEN + ip_hdr_len
          d3 == SwapFields(d2, udp_offset + UDP_SRC_PORT_OFFSET,
                           udp_offset + UDP_DST_PORT_OFFSET, 2)
          d4 == StoreIpChecksum(d3, iph, ip_hdr_len)
          udph == iph + ip_hdr_len
          udp_len == Rd16(d4, udph + 4)
      IN
        IF mode = REFLECT_MODE_MAC THEN d1
        ELSE IF len < ETH_HDR_LEN + IP_HDR_MIN_LEN THEN d1
        ELSE IF ip_hdr_len < IP_HDR_MIN_LEN \/ len < ETH_HDR_LEN + ip_hdr_len THEN d1
        ELSE IF mode = REFLECT_MODE_MAC_IP
             THEN IF software_checksum THEN StoreIpChecksum(d2, iph, ip_hdr_len) ELSE d2
        ELSE IF len < ETH_HDR_LEN + ip_hdr_len + UDP_HDR_LEN THEN d2
        ELSE IF software_checksum /\ len >= MIN_CHECKSUM_PACKET_LEN
             THEN IF len >= ETH_HDR_LEN + ip_hdr_len + udp_len
                  THEN StoreUdpChecksum(d4, iph, udph, udp_len)
                  ELSE d4
        ELSE d3

reflect_packet_ipv6(data, len, mode, software_checksum) ==
    LET outer_etype == Rd16(data, ETH_TYPE_OFFSET)
        ip_offset == IF outer_etype = ETH_P_8021Q \/ outer_etype = ETH_P_8021AD
                     THEN ETH_HDR_LEN + VLAN_HDR_LEN ELSE ETH_HDR_LEN
        d1 == SwapMac(data)
        d2 == SwapFields(d1, ip_offset + IPV6_SRC_OFFSET, ip_offset + IPV6_DST_OFFSET,
                         IPV6_ADDR_LEN)
        udp_offset == ip_offset + IPV6_HDR_LEN
        d3 == SwapFields(d2, udp_offset + UDP_SRC_PORT_OFFSET,
                         udp_offset + UDP_DST_PORT_OFFSET, 2)
        udp_len == Rd16(d3, udp_offset + 4)
    IN
      IF len < ip_offset + IPV6_HDR_LEN THEN data
      ELSE IF mode = REFLECT_MODE_MAC THEN d1
      ELSE IF mode = REFLECT_MODE_MAC_IP THEN d2
      ELSE IF len < udp_offset + UDP_HDR_LEN THEN d2
      ELSE IF software_checksum /\ len >= udp_offset + udp_len
           THEN StoreUdp6Checksum(d3, ip_offset, udp_offset, udp_len)
      ELSE d3

(***************************************************************************)
(* Frames and configurations the model draws its inputs from               *)
(***************************************************************************)
LocalMac == <<0, 1, 85, 23, 30, 27>>
PeerMac == <<0, 192, 23, 84, 5, 152>>
BcastMac == <<255, 255, 255, 255, 255, 255>>
NetAllyOui == <<0, 192, 23>>
JunkSig == <<88, 88, 88, 88, 88, 88, 88>>

\* filler of the bytes no header field covers
Pad(off) == (off * 37 + 11) % 256

PadBuffer == [i \in 1..BufLen |-> Pad(i - 1)]

\* the IPv4/UDP test frame of tests/test_packet_validation.c, with the
\* destination MAC, version/IHL byte, signature, UDP length and frame
\* length as given; csum_valid fills in the checksums the codec computes
MkFrame4(dst, ver_ihl, sig, udp_len, len, csum_valid) ==
    LET eth == dst \o PeerMac \o <<8, 0>>
        ip == <<ver_ihl, 0, 0, 39, 0, 0, 64, 0, 64, 17, 0, 0,
                192, 168, 0, 10, 192, 168, 0, 1>>
        ihl == (ver_ihl % 16) * 4
        u == ETH_HDR_LEN + ihl
        udp == <<15, 2, 15, 3>> \o Bytes16(udp_len) \o <<0, 0>>
               \o <<9, 16, 234, 29, 0>> \o sig
        d == SetBytes(SetBytes(SetBytes(PadBuffer, 0, eth), ETH_HDR_LEN, ip), u, udp)
        dv == StoreUdpChecksum(StoreIpChecksum(d, ETH_HDR_LEN, ihl), ETH_HDR_LEN, u, udp_len)
    IN  [data |-> IF csum_valid THEN dv ELSE d, len |-> len]

\* an IPv6/UDP test frame (EtherType 0x86DD, next header 17)
MkFrame6(dst, sig, len) ==
    LET eth == dst \o PeerMac \o <<134, 221>>
        ip6 == <<96, 0, 0, 0, 0, 20, 17, 64>>
               \o <<32, 1, 13, 184, 0, 0, 0, 0, 0, 0, 0, 0, 0, 0, 0, 1>>
               \o <<32, 1, 13, 184, 0, 0, 0, 0, 0, 0, 0, 0, 0, 0, 0, 2>>
        udp == <<15, 2, 15, 3>> \o Bytes16(20) \o <<0, 0>>
               \o <<9, 16, 234, 29, 0>> \o sig
        d == SetBytes(SetBytes(SetBytes(PadBuffer, 0, eth), ETH_HDR_LEN, ip6),
                      ETH_HDR_LEN + IPV6_HDR_LEN, udp)
    IN  [data |-> d, len |-> len]

\* well-formed test frames of minimal and padded length
FramesFull ==
    {MkFrame4(LocalMac, vi, sig, ul, len, cv) :
        vi \in {69, 70}, sig \in {ITO_SIG_PROBEOT, CUSTOM_SIG_RFC2544, JunkSig},
        ul \in {19, 20}, len \in {58, 64}, cv \in BOOLEAN}
\* truncated frames
FramesShort ==
    {MkFrame4(LocalMac, vi, ITO_SIG_PROBEOT, 19, len, FALSE) :
        vi \in {69, 70}, len \in {0, 13, 14, 20, 33, 34, 38, 41, 42, 53, 54}}
\* frames with an IHL nibble below 5 or the maximal one
FramesOddIhl ==
    {MkFrame4(LocalMac, vi, ITO_SIG_PROBEOT, 20, len, FALSE) :
        vi \in {64, 67, 68, 79}, len \in {34, 64, BufLen}}
FramesOther ==
    {MkFrame4(BcastMac, 69, ITO_SIG_PROBEOT, 19, 64, FALSE)}
    \cup {MkFrame6(LocalMac, ITO_SIG_PROBEOT, len) : len \in {40, 54, 60, 74}}

Frames == FramesFull \cup FramesShort \cup FramesOddIhl \cup FramesOther

\* make_test_config of the unit tests, and the defaults of main.c with the
\* port of the test frame
TestConfig ==
    [mac |-> LocalMac, filter_oui |-> FALSE, oui |-> <<0, 0, 0>>, ito_port |-> 0,
     sig_filter |-> SIG_FILTER_ALL, reflect_mode |-> REFLECT_MODE_ALL,
     software_checksum |-> FALSE, measure_latency |-> FALSE,
     enable_ipv6 |-> FALSE, enable_vlan |-> FALSE]
CliConfig ==
    [TestConfig EXCEPT !.filter_oui = TRUE, !.oui = NetAllyOui, !.ito_port = 3843]

Modes == {REFLECT_MODE_MAC, REFLECT_MODE_MAC_IP, REFLECT_MODE_ALL}

(***************************************************************************)
(* State                                                                   *)
(***************************************************************************)
VARIABLES
    r_hist,     \* codec harness: the buffer before and after each reflect
    r_len,      \* codec harness: frame length
    r_fn,       \* codec harness: the reflect entry point under test
    r_mode,     \* codec harness: reflect_mode_t argument
    r_csum,     \* codec harness: software_checksum argument
    r_cfg,      \* codec harness: configuration handed to the classifier
    c_out,      \* classifier harness: what the classifier call returned
    api_stats,  \* what reflector_get_stats wrote to the caller's structure
    backend,    \* the platform_ops table the worker runs on
    pctx,       \* wctx->pctx: the platform context of that backend
    mem,        \* the packet buffers pkts[i].data point into, by address
    cfg,        \* *wctx->config
    seenCfg,    \* what is_ito_packet reads through the pointer of core.c:153
    running,    \* wctx->running
    w_pc,       \* position of the worker in its loop
    w_iter,     \* number of non-empty batches received so far
    pkts_rx,    \* pkts_rx[0 .. rcvd-1]
    w_i,        \* loop index i of the classify loop
    pkts_tx,    \* pkts_tx[0 .. num_tx-1]
    w_sent,     \* result of the last send_batch
    stats_batch,\* the worker's local stats_batch_t
    wstats,     \* wctx->stats
    now,        \* get_timestamp_ns()
    g_rx,       \* history: bytes of each buffer of the batch as received
    g_sendcnt,  \* history: times a buffer was within a send_batch sent count
    g_relcnt,   \* history: times a buffer was handed to release_batch
    g_recv,     \* history: descriptors and bytes the recv_batch calls returned
    g_held,     \* history: iterations ended since the local batch, not
                \* flushed since, first took counts
    rctx,       \* supervisor: the reflector_ctx_t (config, running, num_workers)
    wctx,       \* supervisor: rctx->workers[0 .. num_workers-1]
    api,        \* supervisor: the thread that calls the reflector_* functions
    g_sup       \* history of the supervisor runs

rvars == <<r_hist, r_len, r_fn, r_mode, r_csum, r_cfg, c_out, api_stats>>
wvars == <<backend, pctx, mem, cfg, seenCfg, running, w_pc, w_iter, pkts_rx, w_i,
           pkts_tx, w_sent, stats_batch, wstats, now, g_rx, g_sendcnt, g_relcnt,
           g_recv, g_held>>
vars == <<rvars, wvars, rctx, wctx, api, g_sup>>

\* the worker group while a harness that does not use it runs
WorkerIdle ==
    /\ backend = "none" /\ pctx = <<>> /\ mem = <<>> /\ cfg = TestConfig
    /\ seenCfg = TestConfig /\ running = FALSE /\ w_pc = "done" /\ w_iter = 0
    /\ pkts_rx = <<>> /\ w_i = 0 /\ pkts_tx = <<>> /\ w_sent = 0
    /\ stats_batch = <<>> /\ wstats = <<>> /\ now = 0
    /\ g_rx = <<>> /\ g_sendcnt = <<>> /\ g_relcnt = <<>>
    /\ g_recv = [pkts |-> 0, bytes |-> 0] /\ g_held = 0

\* the classifier has not been called
NotClassified ==
    [called |-> FALSE, accept |-> FALSE, is_ipv6 |-> FALSE, is_vlan |-> FALSE, reads |-> {}]

\* reflector_get_stats has not been called
NoSnapshot == [valid |-> FALSE]

\* the codec harness while the worker runs
ReflectIdle ==
    /\ r_hist = <<>> /\ r_len = 0 /\ r_fn = "none" /\ r_mode = REFLECT_MODE_ALL
    /\ r_csum = FALSE /\ r_cfg = TestConfig /\ c_out = NotClassified
    /\ api_stats = NoSnapshot

(***************************************************************************)
(* Codec harness: a frame is drawn, then reflect is applied up to twice    *)
(***************************************************************************)
MaxApply == 2

\* the reflect entry points: the mode-aware one, the IPv6 one, and the
\* one the worker calls (with each kernel the dispatch can select)
ReflectFns == {"with_mode", "ipv6", "with_checksum_sse2", "with_checksum_neon",
               "with_checksum_scalar"}

ApplyReflect(fn, data, len, mode, software_checksum) ==
    CASE fn = "with_mode" -> reflect_packet_with_mode(data, len, mode, software_checksum)
      [] fn = "ipv6" -> reflect_packet_ipv6(data, len, mode, software_checksum)
      [] fn = "with_checksum_sse2" ->
            reflect_packet_with_checksum(data, len, software_checksum, "sse2")
      [] fn = "with_checksum_neon" ->
            reflect_packet_with_checksum(data, len, software_checksum, "neon")
      [] OTHER -> reflect_packet_with_checksum(data, len, software_checksum, "scalar")

InitReflect ==
    /\ \E f \in Frames : r_hist = <<f.data>> /\ r_len = f.len
    /\ r_fn \in ReflectFns
    /\ r_mode \in Modes
    /\ r_csum \in BOOLEAN
    /\ r_cfg \in {TestConfig, CliConfig}
    /\ c_out = NotClassified
    /\ api_stats = NoSnapshot
    /\ WorkerIdle
    /\ rctx = [running |-> FALSE] /\ wctx = <<>>
    /\ api = [pc |-> "none"] /\ g_sup = <<>>

Reflect ==
    /\ Len(r_hist) <= MaxApply
    /\ r_hist' = Append(r_hist,
                        ApplyReflect(r_fn, r_hist[Len(r_hist)], r_len, r_mode, r_csum))
    /\ UNCHANGED <<r_len, r_fn, r_mode, r_csum, r_cfg, c_out, api_stats>>
    /\ UNCHANGED <<wvars, rctx, wctx, api, g_sup>>

NextReflect == Reflect

SpecReflect == InitReflect /\ [][NextReflect]_vars

(***************************************************************************)
(* Classifier harness: a frame and a configuration are drawn, then one of  *)
(* the two classifier entry points is called on them                       *)
(***************************************************************************)
Signatures == {ITO_SIG_PROBEOT, ITO_SIG_DATAOT, ITO_SIG_LATENCY, CUSTOM_SIG_RFC2544,
               CUSTOM_SIG_Y1564}

OtherMac == <<2, 0, 0, 171, 205, 239>>
\* the default of --port (the test frames are sent to 3843 here)
ITO_UDP_PORT == 3842

\* the frame with another UDP destination port (IPv4, untagged)
WithDstPort(f, port) ==
    LET u == ETH_HDR_LEN + 4 * (Rd(f.data, ETH_HDR_LEN) % 16)
    IN  [f EXCEPT !.data = SetBytes(@, u + UDP_DST_PORT_OFFSET, Bytes16(port))]

\* the frame with another source MAC
WithSrcMac(f, mac) == [f EXCEPT !.data = SetBytes(@, ETH_SRC_OFFSET, mac)]

\* the frame with one 802.1Q / 802.1ad tag (VLAN 100) put after the MACs
VlanTagged(f, tpid) ==
    [data |-> SubSeq(SubSeq(f.data, 1, ETH_TYPE_OFFSET) \o Bytes16(tpid) \o <<0, 100>>
                     \o SubSeq(f.data, ETH_TYPE_OFFSET + 1, BufLen), 1, BufLen),
     len |-> f.len + VLAN_HDR_LEN]

\* frames that pass every structural check of a configuration without
\* filters, one per signature and one with no known signature
SigFrames ==
    {MkFrame4(LocalMac, 69, sig, 19, 64, FALSE) : sig \in Signatures \cup {JunkSig}}
    \cup {MkFrame4(LocalMac, 70, ITO_SIG_PROBEOT, 19, 64, FALSE)}

ClassifyFrames ==
    SigFrames
    \cup {WithDstPort(f, ITO_UDP_PORT) : f \in SigFrames}
    \cup {WithSrcMac(f, OtherMac) : f \in SigFrames}
    \cup {VlanTagged(f, tpid) : f \in SigFrames, tpid \in {ETH_P_8021Q, ETH_P_8021AD}}
    \cup {MkFrame6(LocalMac, sig, len) :
             sig \in {ITO_SIG_PROBEOT, CUSTOM_SIG_RFC2544, JunkSig}, len \in {60, 74}}
    \cup {VlanTagged(MkFrame6(LocalMac, ITO_SIG_PROBEOT, 74), ETH_P_8021Q)}
    \cup FramesShort \cup FramesOddIhl \cup FramesOther

ClassifyConfigs ==
    {[TestConfig EXCEPT !.sig_filter = sf, !.ito_port = port, !.filter_oui = fo,
                        !.oui = NetAllyOui, !.enable_ipv6 = v6, !.enable_vlan = vl] :
        sf \in {SIG_FILTER_ALL, SIG_FILTER_ITO, SIG_FILTER_RFC2544, SIG_FILTER_Y1564,
                SIG_FILTER_CUSTOM},
        port \in {0, 3843}, fo \in BOOLEAN, v6 \in BOOLEAN, vl \in BOOLEAN}

ClassifyFns == {"is_ito_packet", "is_ito_packet_extended"}

InitClassify ==
    /\ \E f \in ClassifyFrames : r_hist = <<f.data>> /\ r_len = f.len
    /\ r_fn \in ClassifyFns
    /\ r_cfg \in ClassifyConfigs
    /\ r_mode = REFLECT_MODE_ALL /\ r_csum = FALSE
    /\ c_out = NotClassified
    /\ api_stats = NoSnapshot
    /\ WorkerIdle
    /\ rctx = [running |-> FALSE] /\ wctx = <<>>
    /\ api = [pc |-> "none"] /\ g_sup = <<>>

\* the call of the classifier
ClassifyCall ==
    /\ ~c_out.called
    /\ c_out' =
          IF r_fn = "is_ito_packet"
          THEN [called |-> TRUE, accept |-> is_ito_packet(r_hist[1], r_len, r_cfg),
                is_ipv6 |-> FALSE, is_vlan |-> FALSE,
                reads |-> is_ito_packet_reads(r_hist[1], r_len, r_cfg)]
          ELSE LET x == is_ito_packet_extended(r_hist[1], r_len, r_cfg)
               IN  [called |-> TRUE, accept |-> x.accept, is_ipv6 |-> x.is_ipv6,
                    is_vlan |-> x.is_vlan,
                    reads |-> is_ito_packet_extended_reads(r_hist[1], r_len, r_cfg)]
    /\ UNCHANGED <<r_hist, r_len, r_fn, r_mode, r_csum, r_cfg, api_stats>>
    /\ UNCHANGED <<wvars, rctx, wctx, api, g_sup>>

\* the reflect that follows an accept: after is_ito_packet the call of the
\* worker (core.c:172); after is_ito_packet_extended the entry point that
\* reflector.h declares for the IP version it reported
ReflectAccepted ==
    /\ c_out.called /\ c_out.accept /\ Len(r_hist) = 1
    /\ r_hist' = Append(r_hist,
            IF r_fn = "is_ito_packet"
            THEN reflect_packet_with_checksum(r_hist[1], r_len, r_csum, "scalar")
            ELSE IF c_out.is_ipv6
                 THEN reflect_packet_ipv6(r_hist[1], r_len, r_mode, r_csum)
                 ELSE reflect_packet_with_mode(r_hist[1], r_len, r_mode, r_csum))
    /\ UNCHANGED <<r_len, r_fn, r_mode, r_csum, r_cfg, c_out, api_stats>>
    /\ UNCHANGED <<wvars, rctx, wctx, api, g_sup>>

NextClassify == ClassifyCall \/ ReflectAccepted

SpecClassify == InitClassify /\ [][NextClassify]_vars

(***************************************************************************)
(* Worker: statistics batch                                                *)
(***************************************************************************)
\* capacity of the worker's pkts_rx and pkts_tx arrays (64 in the source)
BATCH_SIZE == 2

\* number of non-empty batches a run of the model receives
MaxIter == 2

\* iterations after which the statistics batch is flushed (8 in the source)
STATS_FLUSH_BATCHES == 2

ZeroLatency == [count |-> 0, total_ns |-> 0, min_ns |-> 0, max_ns |-> 0, avg_ns |-> 0]

\* stats_batch_t stats_batch = {0}
ZeroStatsBatch ==
    [packets_received |-> 0, packets_reflected |-> 0, bytes_received |-> 0,
     bytes_reflected |-> 0, sig_probeot_count |-> 0, sig_dataot_count |-> 0,
     sig_latency_count |-> 0, sig_unknown_count |-> 0, err_tx_failed |-> 0,
     latency_batch |-> [count |-> 0, total_ns |-> 0, min_ns |-> 0, max_ns |-> 0],
     batch_count |-> 0]

\* reflector_stats_t of a worker after reflector_init
ZeroStats ==
    [packets_received |-> 0, packets_reflected |-> 0, packets_dropped |-> 0,
     bytes_received |-> 0, bytes_reflected |-> 0,
     sig_probeot_count |-> 0, sig_dataot_count |-> 0, sig_latency_count |-> 0,
     sig_rfc2544_count |-> 0, sig_y1564_count |-> 0, sig_unknown_count |-> 0,
     err_invalid_mac |-> 0, err_invalid_ethertype |-> 0, err_invalid_protocol |-> 0,
     err_invalid_signature |-> 0, err_too_short |-> 0, err_tx_failed |-> 0,
     err_nomem |-> 0, rx_invalid |-> 0, rx_nomem |-> 0, tx_errors |-> 0,
     poll_timeout |-> 0, latency |-> ZeroLatency]

\* the latency merge of flush_stats_batch
MergeLatency(lat, lb) ==
    IF lb.count > 0
    THEN LET count == lat.count + lb.count
             total == lat.total_ns + lb.total_ns
             first == count = lb.count
         IN  [count |-> count, total_ns |-> total,
              min_ns |-> IF first \/ lb.min_ns < lat.min_ns THEN lb.min_ns ELSE lat.min_ns,
              max_ns |-> IF first \/ lb.max_ns > lat.max_ns THEN lb.max_ns ELSE lat.max_ns,
              avg_ns |-> total \div count]
    ELSE lat

\* flush_stats_batch: the worker statistics and the batch it leaves
flush_stats_batch(stats, batch) ==
    IF batch.batch_count = 0 THEN [stats |-> stats, batch |-> batch]
    ELSE [stats |->
            [stats EXCEPT
                !.packets_received = @ + batch.packets_received,
                !.packets_reflected = @ + batch.packets_reflected,
                !.bytes_received = @ + batch.bytes_received,
                !.bytes_reflected = @ + batch.bytes_reflected,
                !.sig_probeot_count = @ + batch.sig_probeot_count,
                !.sig_dataot_count = @ + batch.sig_dataot_count,
                !.sig_latency_count = @ + batch.sig_latency_count,
                !.sig_unknown_count = @ + batch.sig_unknown_count,
                !.err_tx_failed = @ + batch.err_tx_failed,
                !.tx_errors = @ + batch.err_tx_failed,
                !.latency = MergeLatency(@, batch.latency_batch)],
          batch |-> ZeroStatsBatch]

\* one pass of the loop of reflector_get_stats: worker statistics w added
\* to the caller's structure
AddWorkerStats(stats, w) ==
    LET count == stats.latency.count + w.latency.count
        total == stats.latency.total_ns + w.latency.total_ns
        first == count = w.latency.count
    IN  [stats EXCEPT
            !.packets_received = @ + w.packets_received,
            !.packets_reflected = @ + w.packets_reflected,
            !.packets_dropped = @ + w.packets_dropped,
            !.bytes_received = @ + w.bytes_received,
            !.bytes_reflected = @ + w.bytes_reflected,
            !.sig_probeot_count = @ + w.sig_probeot_count,
            !.sig_dataot_count = @ + w.sig_dataot_count,
            !.sig_latency_count = @ + w.sig_latency_count,
            !.sig_unknown_count = @ + w.sig_unknown_count,
            !.err_invalid_mac = @ + w.err_invalid_mac,
            !.err_invalid_ethertype = @ + w.err_invalid_ethertype,
            !.err_invalid_protocol = @ + w.err_invalid_protocol,
            !.err_invalid_signature = @ + w.err_invalid_signature,
            !.err_too_short = @ + w.err_too_short,
            !.err_tx_failed = @ + w.err_tx_failed,
            !.err_nomem = @ + w.err_nomem,
            !.rx_invalid = @ + w.rx_invalid,
            !.rx_nomem = @ + w.rx_nomem,
            !.tx_errors = @ + w.tx_errors,
            !.latency =
                IF w.latency.count > 0
                THEN [@ EXCEPT
                        !.count = count, !.total_ns = total,
                        !.min_ns = IF first \/ w.latency.min_ns < @
                                   THEN w.latency.min_ns ELSE @,
                        !.max_ns = IF first \/ w.latency.max_ns > @
                                   THEN w.latency.max_ns ELSE @]
                ELSE @]

RECURSIVE SumWorkers(_, _)
\* the loop over rctx->workers[0 .. num_workers-1]
SumWorkers(stats, workers) ==
    IF workers = <<>> THEN stats
    ELSE SumWorkers(AddWorkerStats(stats, Head(workers)), Tail(workers))

\* reflector_get_stats: what it leaves in *stats
reflector_get_stats(workers) ==
    LET stats == SumWorkers(ZeroStats, workers)
    IN  IF stats.latency.count > 0
        THEN [stats EXCEPT !.latency.avg_ns = stats.latency.total_ns \div stats.latency.count]
        ELSE stats

(***************************************************************************)
(* Worker: the frames and configurations a run draws from                  *)
(***************************************************************************)
ProbeFrame == MkFrame4(LocalMac, 69, ITO_SIG_PROBEOT, 19, 64, FALSE)
Rfc2544Frame == MkFrame4(LocalMac, 69, CUSTOM_SIG_RFC2544, 19, 58, TRUE)
WrongMacFrame == MkFrame4(BcastMac, 69, ITO_SIG_PROBEOT, 19, 64, FALSE)

WorkerFrames == {ProbeFrame, Rfc2544Frame, WrongMacFrame}

\* configurations reflector_set_config can install
WorkerConfigs ==
    {[TestConfig EXCEPT !.reflect_mode = m, !.software_checksum = c] :
        m \in Modes, c \in BOOLEAN}

\* core.c:153 passes wctx->config->mac, the address of the mac field, where
\* is_ito_packet takes the address of the configuration: every field the
\* classifier reads lies 20 bytes further on.  Its mac is frame_size and
\* the low half of num_frames (4096, 4096), its port, OUI flag and OUI are
\* padding of the zeroed context, and its sig_filter is the low word of the
\* workers pointer (a 16-byte aligned heap address), of which enable_ipv6
\* and enable_vlan are two higher bytes (is_ito_packet reads neither).
MisreadConfigs ==
    {[mac |-> <<0, 16, 0, 0, 0, 16>>, filter_oui |-> FALSE, oui |-> <<0, 0, 0>>,
      ito_port |-> 0, sig_filter |-> f, reflect_mode |-> REFLECT_MODE_ALL,
      software_checksum |-> FALSE, measure_latency |-> FALSE,
      enable_ipv6 |-> TRUE, enable_vlan |-> TRUE] : f \in {0, 16}}

(***************************************************************************)
(* Generic platform: the platform_ops interface with a copying backend     *)
(***************************************************************************)
\* packet_t
Pkt(data, len, addr, timestamp) ==
    [data |-> data, len |-> len, addr |-> addr, timestamp |-> timestamp]

Timestamp == IF cfg.measure_latency THEN now ELSE 0

\* sum of the len fields of descriptors
RECURSIVE SumLen(_)
SumLen(pkts) == IF pkts = <<>> THEN 0 ELSE pkts[1].len + SumLen(Tail(pkts))

Min(a, b) == IF a < b THEN a ELSE b
Max(a, b) == IF a > b THEN a ELSE b

\* recv_batch: up to max_pkts of the frames the peer sends arrive, frame k
\* in buffer k
GenericRecv(max_pkts) ==
    {[pctx |-> pctx,
      mem |-> [a \in DOMAIN mem |-> IF a + 1 <= Len(fs) THEN fs[a + 1].data ELSE mem[a]],
      stats |-> wstats,
      pkts |-> [k \in 1..Len(fs) |-> Pkt(k - 1, fs[k].len, 0, Timestamp)]] :
        fs \in UNION {[1..n -> pctx.peer] : n \in 0..max_pkts}}

\* send_batch: any result an int return allows; the leading sent frames
\* are on the wire
GenericSend(pkts, num_pkts) ==
    {[pctx |-> [pctx EXCEPT !.wire = @ \o [k \in 1..Max(sent, 0) |->
                                [data |-> mem[pkts[k].data], len |-> pkts[k].len]]],
      mem |-> mem, stats |-> wstats, sent |-> sent] : sent \in (-1)..num_pkts}

\* release_batch: nothing to give back
GenericRelease(pkts, num_pkts) == [pctx |-> pctx, mem |-> mem]

(***************************************************************************)
(* AF_XDP platform: UMEM frames and the FILL, RX, TX and COMPLETION rings  *)
(***************************************************************************)
\* frames of the UMEM (config.num_frames; the source default is 4096)
UmemFrames == 4

\* entries of each ring: NUM_FRAMES / 2
XdpRingSize == UmemFrames \div 2

\* xsk_ring_prod__reserve: all nb entries or none
RingReserve(ring, nb) == IF XdpRingSize - Len(ring) >= nb THEN nb ELSE 0

\* xsk_ring_cons__peek: the entries available, at most nb
RingPeek(ring, nb) == Min(Len(ring), nb)

\* the ring without its first n entries
RingDrop(ring, n) == SubSeq(ring, n + 1, Len(ring))

\* platform context after xdp_platform_init: populate_fill_queue has put
\* the first num_frames / 2 frame addresses on FILL
XdpInitCtx ==
    [fq |-> [i \in 1..(UmemFrames \div 2) |-> i - 1], rx |-> <<>>, tx |-> <<>>,
     cq |-> <<>>, outstanding_tx |-> 0, wire |-> <<>>]

\* xdp_recycle_completed_tx
xdp_recycle_completed_tx(p) ==
    LET completed == RingPeek(p.cq, BATCH_SIZE)
        reserved == RingReserve(p.fq, completed)
    IN  IF completed <= 0 THEN p
        ELSE [p EXCEPT !.fq = IF reserved > 0 THEN @ \o SubSeq(p.cq, 1, reserved) ELSE @,
                       !.cq = RingDrop(@, completed),
                       !.outstanding_tx = @ - completed]

\* xdp_platform_recv_batch
XdpRecv(max_pkts) ==
    LET n == RingPeek(pctx.rx, max_pkts)
    IN  {[pctx |-> [pctx EXCEPT !.rx = RingDrop(@, n)], mem |-> mem, stats |-> wstats,
          pkts |-> [k \in 1..n |-> Pkt(pctx.rx[k].addr, pctx.rx[k].len, pctx.rx[k].addr, Timestamp)]]}

\* xdp_platform_send_batch
XdpSend(pkts, num_pkts) ==
    IF num_pkts < 0 \/ num_pkts > BATCH_SIZE
    THEN {[pctx |-> pctx, mem |-> mem, stats |-> wstats, sent |-> 0]}
    ELSE LET p1 == xdp_recycle_completed_tx(pctx)
             reserved == RingReserve(p1.tx, num_pkts)
         IN  IF reserved = 0
             THEN {[pctx |-> xdp_recycle_completed_tx(p1), mem |-> mem,
                    stats |-> wstats, sent |-> 0]}
             ELSE {[pctx |-> [p1 EXCEPT
                                !.tx = @ \o [k \in 1..reserved |->
                                        [addr |-> pkts[k].addr, len |-> pkts[k].len]],
                                !.outstanding_tx = @ + reserved],
                    mem |-> mem,
                    stats |-> [wstats EXCEPT
                                !.packets_reflected = @ + reserved,
                                !.bytes_reflected = @ + SumLen(SubSeq(pkts, 1, reserved))],
                    sent |-> reserved]}

\* xdp_platform_release_batch
XdpRelease(pkts, num_pkts) ==
    IF num_pkts < 0 \/ num_pkts > BATCH_SIZE THEN [pctx |-> pctx, mem |-> mem]
    ELSE LET p1 == xdp_recycle_completed_tx(pctx)
         IN  [pctx |-> IF num_pkts = 1 /\ RingReserve(p1.fq, 1) > 0
                       THEN [p1 EXCEPT !.fq = Append(@, pkts[1].addr)]
                       ELSE p1,
              mem |-> mem]

(***************************************************************************)
(* AF_PACKET platform, TPACKET_V3: RX ring of blocks, TX ring of frames    *)
(***************************************************************************)
\* blocks of the RX ring (PACKET_RING_FRAMES / 128 = 32 in the source)
PACKET_BLOCK_NR == 2

\* frames a block of the RX ring holds at most (128 in the source)
BlockFrames == 2

\* frames of the TX ring (PACKET_RING_FRAMES / 2 in the source)
TxRingFrames == 2

\* the buffer of the n-th frame (from 0) of a block of the RX ring
FrameBuf(block_idx, n) == block_idx * BlockFrames + n

\* (current_block_idx << 16) | current_block_offset, and its block index
BlockAddr(block_idx, offset) == block_idx * 65536 + offset
BlockOf(addr) == addr \div 65536

\* platform context after packet_platform_init: every block and every TX
\* frame is the kernel's resp. available. History kept with a block since
\* the kernel handed it over: the frames recv_batch returned descriptors
\* for (returned), whether its cursor has walked on to the next block
\* (left), and the times release_batch wrote TP_STATUS_KERNEL (flips)
PktInitCtx ==
    [tpacket_version |-> 3,
     blocks |-> [b \in 0..(PACKET_BLOCK_NR - 1) |->
                    [block_status |-> "TP_STATUS_KERNEL", num_pkts |-> 0, snaplen |-> <<>>,
                     returned |-> <<>>, left |-> FALSE, flips |-> 0]],
     current_block_idx |-> 0, current_block_offset |-> 0,
     tx_ring |-> [t \in 0..(TxRingFrames - 1) |->
                    [tp_status |-> "TP_STATUS_AVAILABLE", data |-> <<>>, len |-> 0]],
     tx_frame_idx |-> 0,
     kernel_block |-> 0, kernel_tx |-> 0, wire |-> <<>>]

\* the while loop of packet_platform_recv_batch for TPACKET_V3: frame_ptr
\* starts at the first packet of the block each time the block is entered
RECURSIVE V3RecvLoop(_, _, _, _)
V3RecvLoop(p, idx, off, st) ==
    IF Len(st.pkts) >= st.max \/ p.blocks[idx].block_status # "TP_STATUS_USER"
    THEN [pctx |-> [p EXCEPT !.current_block_idx = idx, !.current_block_offset = off],
          pkts |-> st.pkts]
    ELSE LET num_frames == p.blocks[idx].num_pkts
             take == Max(0, Min(num_frames - off, st.max - Len(st.pkts)))
             new == [k \in 1..take |->
                        Pkt(FrameBuf(idx, k - 1), p.blocks[idx].snaplen[k],
                            BlockAddr(idx, off + k - 1), Timestamp)]
             st2 == [st EXCEPT !.pkts = @ \o new]
             p2 == [p EXCEPT !.blocks[idx].returned = @ \o [k \in 1..take |-> k - 1],
                             !.blocks[idx].left = @ \/ off + take >= num_frames]
         IN  IF off + take >= num_frames
             THEN V3RecvLoop(p2, (idx + 1) % PACKET_BLOCK_NR, 0, st2)
             ELSE V3RecvLoop(p2, idx, off + take, st2)

\* packet_platform_recv_batch, ring mode, TPACKET_V3
PktV3Recv(max_pkts) ==
    LET r == V3RecvLoop(pctx, pctx.current_block_idx, pctx.current_block_offset,
                        [pkts |-> <<>>, max |-> max_pkts])
    IN  {[pctx |-> r.pctx, mem |-> mem, stats |-> wstats, pkts |-> r.pkts]}

\* the TX ring loop of packet_platform_send_batch
RECURSIVE TxRingLoop(_, _, _, _)
TxRingLoop(p, pkts, i, num_pkts) ==
    IF i > num_pkts \/ p.tx_ring[p.tx_frame_idx].tp_status # "TP_STATUS_AVAILABLE"
    THEN [pctx |-> p, sent |-> i - 1]
    ELSE TxRingLoop([p EXCEPT
                        !.tx_ring[p.tx_frame_idx] =
                            [tp_status |-> "TP_STATUS_SEND_REQUEST",
                             data |-> mem[pkts[i].data], len |-> pkts[i].len],
                        !.tx_frame_idx = (@ + 1) % TxRingFrames],
                    pkts, i + 1, num_pkts)

\* packet_platform_send_batch, ring mode
PktRingSend(pkts, num_pkts) ==
    IF num_pkts < 0 \/ num_pkts > BATCH_SIZE
    THEN {[pctx |-> pctx, mem |-> mem, stats |-> wstats, sent |-> 0]}
    ELSE LET r == TxRingLoop(pctx, pkts, 1, num_pkts)
         IN  {[pctx |-> r.pctx, mem |-> mem, stats |-> wstats, sent |-> r.sent]}

\* packet_platform_release_batch, TPACKET_V3: the block of each of the
\* descriptors goes back to the kernel
PktV3Release(pkts, num_pkts) ==
    IF num_pkts < 0 \/ num_pkts > BATCH_SIZE THEN [pctx |-> pctx, mem |-> mem]
    ELSE [pctx |-> [pctx EXCEPT !.blocks =
                      [b \in DOMAIN @ |->
                          IF \E i \in 1..num_pkts : BlockOf(pkts[i].addr) = b
                          THEN [@[b] EXCEPT !.block_status = "TP_STATUS_KERNEL",
                                            !.flips = Min(@ + 1, 2)]
                          ELSE @[b]]],
          mem |-> mem]

(***************************************************************************)
(* macOS BPF platform: read buffer, coalescing write buffer                *)
(***************************************************************************)
\* capacity of the write buffer in bytes (64 KiB in the source)
WRITE_COALESCE_SIZE == 128

\* records one read() of the BPF device returns at most
BpfReadRecords == 3

\* poll timeouts a run of the model counts at most
MaxTimeouts == 1

\* platform context after bpf_platform_init
BpfInitCtx ==
    [read_len |-> 0, read_offset |-> 0, snaplen |-> <<>>,
     write_buffer |-> <<>>, write_offset |-> 0,
     wire |-> <<>>, handed |-> {}, offered |-> <<>>]

\* results of a write() of the BPF device: all bytes taken, fewer bytes
\* taken, EAGAIN / ENOBUFS, another error
WriteOutcomes == {"ok", "short", "eagain", "error"}

\* flush_write_buffer with the given result of its write(): the context,
\* the worker statistics and the value returned
flush_write_buffer(p, stats, outcome) ==
    IF p.write_offset = 0 THEN [pctx |-> p, stats |-> stats, ret |-> 0]
    ELSE IF outcome \in {"eagain", "error"}
    THEN [pctx |-> p,
          stats |-> IF outcome = "error" THEN [stats EXCEPT !.tx_errors = @ + 1] ELSE stats,
          ret |-> -1]
    ELSE [pctx |-> [p EXCEPT
                      !.wire = Append(@, [k \in 1..Len(p.write_buffer) |->
                                  [data |-> p.write_buffer[k].data,
                                   len |-> p.write_buffer[k].len]]),
                      !.handed = (@ \cup {p.write_buffer[k].idx :
                                             k \in 1..Len(p.write_buffer)}) \ {0},
                      !.write_buffer = <<>>, !.write_offset = 0],
          stats |-> stats, ret |-> 0]

\* the results of flush_write_buffer over the results its write() can have
FlushResults(p, stats) ==
    IF p.write_offset = 0 THEN {flush_write_buffer(p, stats, "ok")}
    ELSE {flush_write_buffer(p, stats, o) : o \in WriteOutcomes}

\* the loop of bpf_platform_send_batch from descriptor i on: the set of
\* [pctx, stats, sent] it can end with
RECURSIVE BpfSendLoop(_, _, _, _, _, _)
BpfSendLoop(p, stats, pkts, i, num_pkts, sent) ==
    IF i > num_pkts THEN {[pctx |-> p, stats |-> stats, sent |-> sent]}
    ELSE
      LET pkt == pkts[i]
          add(q, st) ==
              BpfSendLoop([q EXCEPT
                              !.write_buffer = Append(@, [data |-> mem[pkt.data],
                                                          len |-> pkt.len, idx |-> i]),
                              !.write_offset = @ + pkt.len],
                          st, pkts, i + 1, num_pkts, sent + 1)
          \* the direct write after a failed flush: all bytes taken, fewer
          \* bytes taken, EAGAIN / ENOBUFS, another error
          direct(q, st) ==
              BpfSendLoop([q EXCEPT !.wire = Append(@, <<[data |-> mem[pkt.data],
                                                         len |-> pkt.len]>>),
                                    !.handed = @ \cup {i}],
                          st, pkts, i + 1, num_pkts, sent + 1)
                \cup BpfSendLoop(q, st, pkts, i + 1, num_pkts, sent)
                \cup {[pctx |-> q, stats |-> st, sent |-> sent]}
                \cup BpfSendLoop(q, [st EXCEPT !.tx_errors = @ + 1], pkts, i + 1,
                                 num_pkts, sent)
      IN  IF p.write_offset + pkt.len > WRITE_COALESCE_SIZE
          THEN UNION {IF f.ret < 0 THEN direct(f.pctx, f.stats) ELSE add(f.pctx, f.stats) :
                        f \in FlushResults(p, stats)}
          ELSE add(p, stats)

\* bpf_platform_send_batch
BpfSend(pkts, num_pkts) ==
    LET p0 == [pctx EXCEPT !.handed = {},
                           !.offered = @ \o [k \in 1..num_pkts |-> mem[pkts[k].data]],
                           !.write_buffer = [k \in 1..Len(@) |-> [@[k] EXCEPT !.idx = 0]]]
    IN  UNION {{[pctx |-> f.pctx, mem |-> mem, stats |-> f.stats, sent |-> r.sent] :
                    f \in FlushResults(r.pctx, r.stats)} :
                 r \in BpfSendLoop(p0, wstats, pkts, 1, num_pkts, 0)}

\* bpf_platform_recv_batch: the records of the read buffer not yet
\* returned, after a read() when there are none. The buffer is counted in
\* records: snaplen holds the captured lengths of its complete records, and
\* read_len is one more than their number when bytes that are no complete
\* record follow the last of them; the parse loop breaks there with
\* read_offset left below read_len
BpfParse(p, m, st, max_pkts) ==
    LET n == Min(Len(p.snaplen) - p.read_offset, max_pkts)
    IN  [pctx |-> [p EXCEPT !.read_offset = @ + n], mem |-> m, stats |-> st,
         pkts |-> [k \in 1..n |-> Pkt(p.read_offset + k - 1, p.snaplen[p.read_offset + k],
                                      0, Timestamp)]]

\* bpf_platform_recv_batch that reads again with records left
BpfRecv_refillEarly(max_pkts) ==
    IF pctx.read_offset >= pctx.read_len \/ pctx.read_offset > 0
    THEN \* kevent fails or is interrupted, or read() fails or returns 0
         {[pctx |-> pctx, mem |-> mem, stats |-> wstats, pkts |-> <<>>]}
         \* kevent times out
         \cup (IF wstats.poll_timeout < MaxTimeouts
               THEN {[pctx |-> pctx, mem |-> mem,
                      stats |-> [wstats EXCEPT !.poll_timeout = @ + 1], pkts |-> <<>>]}
               ELSE {})
         \* read() returns records, with or without bytes of a further one
         \cup {BpfParse([pctx EXCEPT !.read_len = Len(fs) + rest, !.read_offset = 0,
                                     !.snaplen = [k \in 1..Len(fs) |-> fs[k].len]],
                        [a \in DOMAIN mem |->
                            IF a + 1 <= Len(fs) THEN fs[a + 1].data ELSE mem[a]],
                        wstats, max_pkts) :
                  fs \in UNION {[1..n -> WorkerFrames] : n \in 1..BpfReadRecords},
                  rest \in 0..1}
    ELSE {BpfParse(pctx, mem, wstats, max_pkts)}

BpfRecv(max_pkts) ==
    IF pctx.read_offset >= pctx.read_len
    THEN \* kevent fails or is interrupted, or read() fails or returns 0
         {[pctx |-> pctx, mem |-> mem, stats |-> wstats, pkts |-> <<>>]}
         \* kevent times out
         \cup (IF wstats.poll_timeout < MaxTimeouts
               THEN {[pctx |-> pctx, mem |-> mem,
                      stats |-> [wstats EXCEPT !.poll_timeout = @ + 1], pkts |-> <<>>]}
               ELSE {})
         \* read() returns records, with or without bytes of a further one
         \cup {BpfParse([pctx EXCEPT !.read_len = Len(fs) + rest, !.read_offset = 0,
                                     !.snaplen = [k \in 1..Len(fs) |-> fs[k].len]],
                        [a \in DOMAIN mem |->
                            IF a + 1 <= Len(fs) THEN fs[a + 1].data ELSE mem[a]],
                        wstats, max_pkts) :
                  fs \in UNION {[1..n -> WorkerFrames] : n \in 1..BpfReadRecords},
                  rest \in 0..1}
    ELSE {BpfParse(pctx, mem, wstats, max_pkts)}

\* bpf_platform_release_batch
BpfRelease(pkts, num_pkts) == [pctx |-> pctx, mem |-> mem]

(***************************************************************************)
(* platform_ops dispatch                                                   *)
(***************************************************************************)
recv_batch(max_pkts) ==
    CASE backend = "generic" -> GenericRecv(max_pkts)
      [] backend = "xdp" -> XdpRecv(max_pkts)
      [] backend = "pkt_v3" -> PktV3Recv(max_pkts)
      [] backend = "bpf" -> BpfRecv(max_pkts)

send_batch(pkts, num_pkts) ==
    CASE backend = "generic" -> GenericSend(pkts, num_pkts)
      [] backend = "xdp" -> XdpSend(pkts, num_pkts)
      [] backend = "pkt_v3" -> PktRingSend(pkts, num_pkts)
      [] backend = "bpf" -> BpfSend(pkts, num_pkts)

release_batch(pkts, num_pkts) ==
    CASE backend = "generic" -> GenericRelease(pkts, num_pkts)
      [] backend = "xdp" -> XdpRelease(pkts, num_pkts)
      [] backend = "pkt_v3" -> PktV3Release(pkts, num_pkts)
      [] backend = "bpf" -> BpfRelease(pkts, num_pkts)

(***************************************************************************)
(* Worker loop (worker_thread / worker_loop)                               *)
(***************************************************************************)
rcvd == Len(pkts_rx)
num_tx == Len(pkts_tx)

\* the test of core.c:153 on a received descriptor
Classify(pkt) == is_ito_packet(mem[pkt.data], pkt.len, seenCfg)

\* the reflect call of core.c:172
WorkerReflect(data, len) ==
    reflect_packet_with_checksum(data, len, cfg.software_checksum, "scalar")

\* the switch on the signature type of core.c:155-170
CountSignature(batch, sig_type) ==
    CASE sig_type = SIG_TYPE_PROBEOT -> [batch EXCEPT !.sig_probeot_count = @ + 1]
      [] sig_type = SIG_TYPE_DATAOT -> [batch EXCEPT !.sig_dataot_count = @ + 1]
      [] sig_type = SIG_TYPE_LATENCY -> [batch EXCEPT !.sig_latency_count = @ + 1]
      [] OTHER -> [batch EXCEPT !.sig_unknown_count = @ + 1]

latency_batch_add_keepMin(lb, latency_ns) ==
    LET count == lb.count + 1
    IN  [count |-> count, total_ns |-> lb.total_ns + latency_ns,
         min_ns |-> IF count = 1 THEN latency_ns ELSE lb.min_ns,
         max_ns |-> IF count = 1 \/ latency_ns > lb.max_ns THEN latency_ns ELSE lb.max_ns]

\* core.c:181-194: one latency added to the mini reservoir of the batch
latency_batch_add(lb, latency_ns) ==
    LET count == lb.count + 1
    IN  [count |-> count, total_ns |-> lb.total_ns + latency_ns,
         min_ns |-> IF count = 1 \/ latency_ns < lb.min_ns THEN latency_ns ELSE lb.min_ns,
         max_ns |-> IF count = 1 \/ latency_ns > lb.max_ns THEN latency_ns ELSE lb.max_ns]

\* the latency block of core.c:175-194
CountLatency(batch, pkt) ==
    IF cfg.measure_latency
    THEN [batch EXCEPT !.latency_batch = latency_batch_add(@, now - pkt.timestamp)]
    ELSE batch

\* counts of the buffers of pkts[1..n] added to a history counter
Counted(cnt, pkts, n) ==
    [a \in DOMAIN cnt |-> cnt[a] + Cardinality({k \in 1..n : pkts[k].data = a})]

InitWorker(b, ctx0, mem0, configs) ==
    /\ backend = b /\ pctx = ctx0 /\ mem = mem0
    /\ cfg \in configs
    /\ seenCfg \in {cfg} \cup MisreadConfigs
    /\ running = TRUE /\ w_pc = "recv" /\ w_iter = 0
    /\ pkts_rx = <<>> /\ w_i = 0 /\ pkts_tx = <<>> /\ w_sent = 0
    /\ stats_batch = ZeroStatsBatch /\ wstats = ZeroStats /\ now = 0
    /\ g_rx = [a \in DOMAIN mem0 |-> mem0[a]]
    /\ g_sendcnt = [a \in DOMAIN mem0 |-> 0]
    /\ g_relcnt = [a \in DOMAIN mem0 |-> 0]
    /\ g_recv = [pkts |-> 0, bytes |-> 0] /\ g_held = 0
    /\ ReflectIdle
    /\ rctx = [running |-> FALSE] /\ wctx = <<>>
    /\ api = [pc |-> "none"] /\ g_sup = <<>>

\* core.c:132-143: receive a batch and account it
WorkerRecv ==
    /\ w_pc = "recv" /\ running /\ w_iter < MaxIter
    /\ \E r \in recv_batch(BATCH_SIZE) :
        /\ pctx' = r.pctx /\ mem' = r.mem /\ wstats' = r.stats
        /\ IF Len(r.pkts) <= 0
           THEN /\ g_held' = IF g_held > 0 THEN Min(g_held + 1, STATS_FLUSH_BATCHES + 1)
                                ELSE g_held
                /\ UNCHANGED <<w_pc, w_iter, pkts_rx, w_i, pkts_tx, stats_batch,
                               g_rx, g_sendcnt, g_relcnt, g_recv>>
           ELSE /\ pkts_rx' = r.pkts
                /\ stats_batch' = [stats_batch EXCEPT
                        !.packets_received = @ + Len(r.pkts),
                        !.bytes_received = @ + SumLen(r.pkts)]
                /\ pkts_tx' = <<>> /\ w_i' = 0 /\ w_pc' = "proc"
                /\ w_iter' = w_iter + 1
                /\ g_recv' = [pkts |-> g_recv.pkts + Len(r.pkts),
                              bytes |-> g_recv.bytes + SumLen(r.pkts)]
                /\ g_held' = g_held
                /\ g_rx' = [a \in DOMAIN g_rx |->
                              IF \E k \in 1..Len(r.pkts) : r.pkts[k].data = a
                              THEN r.mem[a] ELSE g_rx[a]]
                /\ g_sendcnt' = [a \in DOMAIN g_sendcnt |->
                              IF \E k \in 1..Len(r.pkts) : r.pkts[k].data = a
                              THEN 0 ELSE g_sendcnt[a]]
                /\ g_relcnt' = [a \in DOMAIN g_relcnt |->
                              IF \E k \in 1..Len(r.pkts) : r.pkts[k].data = a
                              THEN 0 ELSE g_relcnt[a]]
    /\ UNCHANGED <<backend, cfg, seenCfg, running, w_sent, now, rvars, rctx, wctx, api, g_sup>>

\* core.c:153-200: descriptor i is an ITO frame: count, reflect, queue for TX
WorkerAccept ==
    /\ w_pc = "proc" /\ w_i < rcvd
    /\ LET pkt == pkts_rx[w_i + 1]
           data == mem[pkt.data]
       IN  /\ Classify(pkt)
           /\ stats_batch' =
                LET b1 == CountSignature(stats_batch,
                                         get_ito_signature_type(data, pkt.len))
                    b2 == CountLatency(b1, pkt)
                IN  [b2 EXCEPT !.packets_reflected = @ + 1,
                               !.bytes_reflected = @ + pkt.len]
           /\ mem' = [mem EXCEPT ![pkt.data] = WorkerReflect(data, pkt.len)]
           /\ pkts_tx' = Append(pkts_tx, pkt)
    /\ w_i' = w_i + 1
    /\ w_pc' = IF w_i + 1 < rcvd THEN "proc" ELSE "send"
    /\ UNCHANGED <<backend, pctx, cfg, seenCfg, running, w_iter, pkts_rx, w_sent,
                   wstats, now, g_rx, g_sendcnt, g_relcnt, g_recv,
                   g_held, rvars, rctx, wctx, api, g_sup>>

\* core.c:201-207: descriptor i is not an ITO frame: release its buffer
WorkerReject ==
    /\ w_pc = "proc" /\ w_i < rcvd
    /\ LET pkt == pkts_rx[w_i + 1]
           r == release_batch(<<pkt>>, 1)
       IN  /\ ~Classify(pkt)
           /\ pctx' = r.pctx /\ mem' = r.mem
           /\ g_relcnt' = Counted(g_relcnt, <<pkt>>, 1)
    /\ w_i' = w_i + 1
    /\ w_pc' = IF w_i + 1 < rcvd THEN "proc" ELSE "send"
    /\ UNCHANGED <<backend, cfg, seenCfg, running, w_iter, pkts_rx, pkts_tx, w_sent,
                   stats_batch, wstats, now, g_rx, g_sendcnt, g_recv,
                   g_held, rvars, rctx, wctx, api, g_sup>>

\* core.c:210-215: send the reflected frames, count a failed send
WorkerSend ==
    /\ w_pc = "send"
    /\ IF num_tx > 0
       THEN \E s \in send_batch(pkts_tx, num_tx) :
               /\ pctx' = s.pctx /\ mem' = s.mem /\ wstats' = s.stats
               /\ w_sent' = s.sent
               /\ stats_batch' = IF s.sent < 0
                                 THEN [stats_batch EXCEPT !.err_tx_failed = @ + num_tx]
                                 ELSE stats_batch
               /\ g_sendcnt' = Counted(g_sendcnt, pkts_tx, Max(s.sent, 0))
       ELSE UNCHANGED <<pctx, mem, wstats, w_sent, stats_batch, g_sendcnt>>
    /\ w_pc' = "release"
    /\ UNCHANGED <<backend, cfg, seenCfg, running, w_iter, pkts_rx, w_i, pkts_tx,
                   now, g_rx, g_relcnt, g_recv,
                   g_held, rvars, rctx, wctx, api, g_sup>>

\* core.c:216-234: release what was sent, close the iteration, flush the
\* statistics batch when it is due
WorkerRelease ==
    /\ w_pc = "release"
    /\ IF num_tx > 0 /\ w_sent > 0
       THEN LET r == release_batch(pkts_tx, w_sent)
            IN  /\ pctx' = r.pctx /\ mem' = r.mem
                /\ g_relcnt' = Counted(g_relcnt, pkts_tx, w_sent)
       ELSE UNCHANGED <<pctx, mem, g_relcnt>>
    /\ LET b == [stats_batch EXCEPT !.batch_count = @ + 1]
           f == IF b.batch_count >= STATS_FLUSH_BATCHES
                THEN flush_stats_batch(wstats, b)
                ELSE [stats |-> wstats, batch |-> b]
       IN  /\ wstats' = f.stats /\ stats_batch' = f.batch
           /\ g_held' = IF b.batch_count >= STATS_FLUSH_BATCHES THEN 0
                        ELSE Min(g_held + 1, STATS_FLUSH_BATCHES + 1)
    /\ w_pc' = "recv"
    /\ UNCHANGED <<backend, cfg, seenCfg, running, w_iter, pkts_rx, w_i, pkts_tx,
                   w_sent, now, g_rx, g_sendcnt, g_recv, rvars, rctx, wctx, api, g_sup>>

\* reflector_stop clears wctx->running
WorkerStop ==
    /\ running
    /\ running' = FALSE
    /\ UNCHANGED <<backend, pctx, mem, cfg, seenCfg, w_pc, w_iter, pkts_rx, w_i,
                   pkts_tx, w_sent, stats_batch, wstats, now, g_rx, g_sendcnt,
                   g_relcnt, g_recv,
                   g_held, rvars, rctx, wctx, api, g_sup>>

\* core.c:130, 236-237: the loop test fails; final flush
WorkerExit ==
    /\ w_pc = "recv" /\ ~running
    /\ LET f == flush_stats_batch(wstats, stats_batch)
       IN  wstats' = f.stats /\ stats_batch' = f.batch
    /\ g_held' = 0
    /\ w_pc' = "done"
    /\ UNCHANGED <<backend, pctx, mem, cfg, seenCfg, running, w_iter, pkts_rx, w_i,
                   pkts_tx, w_sent, now, g_rx, g_sendcnt, g_relcnt, g_recv,
                   rvars, rctx, wctx, api, g_sup>>

\* rctx->workers[i].stats for i < num_workers (one worker: core.c:381)
WorkerStats == <<wstats>>

\* reflector_get_stats called once the worker has left its loop (the
\* workers are quiescent)
GetStats ==
    /\ w_pc = "done" /\ ~api_stats.valid
    /\ api_stats' = [valid |-> TRUE, stats |-> reflector_get_stats(WorkerStats)]
    /\ UNCHANGED <<r_hist, r_len, r_fn, r_mode, r_csum, r_cfg, c_out>>
    /\ UNCHANGED <<wvars, rctx, wctx, api, g_sup>>

WorkerNext ==
    \/ WorkerRecv \/ WorkerAccept \/ WorkerReject \/ WorkerSend \/ WorkerRelease
    \/ WorkerStop \/ WorkerExit

InitGeneric ==
    InitWorker("generic", [wire |-> <<>>, peer |-> WorkerFrames],
               [a \in 0..(BATCH_SIZE - 1) |-> PadBuffer], WorkerConfigs)

NextGeneric == WorkerNext

SpecWorker == InitGeneric /\ [][NextGeneric]_vars

(***************************************************************************)
(* The worker with the protocol options: IPv6 and VLAN frames arrive       *)
(***************************************************************************)
Ipv6ProbeFrame == MkFrame6(LocalMac, ITO_SIG_PROBEOT, 74)
VlanProbeFrame == VlanTagged(ProbeFrame, ETH_P_8021Q)

ProtoFrames == {ProbeFrame, Ipv6ProbeFrame, VlanProbeFrame}

\* full reflection, each setting of --ipv6 and --vlan
ProtoConfigs ==
    {[TestConfig EXCEPT !.enable_ipv6 = v6, !.enable_vlan = vl] :
        v6 \in BOOLEAN, vl \in BOOLEAN}

InitProto ==
    InitWorker("generic", [wire |-> <<>>, peer |-> ProtoFrames],
               [a \in 0..(BATCH_SIZE - 1) |-> PadBuffer], ProtoConfigs)

NextProto == WorkerNext

SpecProto == InitProto /\ [][NextProto]_vars

(***************************************************************************)
(* AF_XDP: the kernel side of the rings, and the worker on this platform   *)
(***************************************************************************)
\* frames that arrive on the interface
XdpFrames == {ProbeFrame, WrongMacFrame}

\* the kernel takes the next FILL address, writes an arriving frame into
\* that UMEM frame and posts the descriptor on RX
XdpKernelRx ==
    /\ backend = "xdp"
    /\ pctx.fq # <<>> /\ Len(pctx.rx) < XdpRingSize
    /\ \E f \in XdpFrames :
        LET addr == Head(pctx.fq)
        IN  /\ mem' = [mem EXCEPT ![addr] = f.data]
            /\ pctx' = [pctx EXCEPT !.fq = Tail(@),
                                    !.rx = Append(@, [addr |-> addr, len |-> f.len])]
    /\ UNCHANGED <<backend, cfg, seenCfg, running, w_pc, w_iter, pkts_rx, w_i, pkts_tx,
                   w_sent, stats_batch, wstats, now, g_rx, g_sendcnt, g_relcnt, g_recv,
                   g_held, rvars, rctx, wctx, api, g_sup>>

\* the kernel transmits the next TX descriptor from its UMEM frame and
\* posts the address on COMPLETION
XdpKernelTx ==
    /\ backend = "xdp"
    /\ pctx.tx # <<>> /\ Len(pctx.cq) < XdpRingSize
    /\ LET d == Head(pctx.tx)
       IN  pctx' = [pctx EXCEPT !.tx = Tail(@),
                                !.cq = Append(@, d.addr),
                                !.wire = Append(@, [data |-> mem[d.addr], len |-> d.len])]
    /\ UNCHANGED <<backend, mem, cfg, seenCfg, running, w_pc, w_iter, pkts_rx, w_i,
                   pkts_tx, w_sent, stats_batch, wstats, now, g_rx, g_sendcnt,
                   g_relcnt, g_recv,
                   g_held, rvars, rctx, wctx, api, g_sup>>

InitXdp ==
    InitWorker("xdp", XdpInitCtx, [a \in 0..(UmemFrames - 1) |-> PadBuffer],
               {TestConfig})

NextXdp == WorkerNext \/ XdpKernelRx \/ XdpKernelTx

SpecXdp == InitXdp /\ [][NextXdp]_vars

(***************************************************************************)
(* AF_PACKET TPACKET_V3: the kernel side, and the worker on this platform  *)
(***************************************************************************)
\* frames that arrive on the interface
PktFrames == {ProbeFrame, WrongMacFrame}

\* the kernel fills the next block it owns with arriving frames and hands
\* it to user space
PktKernelFill ==
    /\ backend = "pkt_v3"
    /\ pctx.blocks[pctx.kernel_block].block_status = "TP_STATUS_KERNEL"
    /\ \E n \in 1..BlockFrames : \E fs \in [1..n -> PktFrames] :
        LET b == pctx.kernel_block
        IN  /\ mem' = [a \in DOMAIN mem |->
                        IF a >= FrameBuf(b, 0) /\ a < FrameBuf(b, n)
                        THEN fs[a - FrameBuf(b, 0) + 1].data ELSE mem[a]]
            /\ pctx' = [pctx EXCEPT
                            !.blocks[b] = [block_status |-> "TP_STATUS_USER",
                                           num_pkts |-> n,
                                           snaplen |-> [k \in 1..n |-> fs[k].len],
                                           returned |-> <<>>, left |-> FALSE,
                                           flips |-> 0],
                            !.kernel_block = (@ + 1) % PACKET_BLOCK_NR]
    /\ UNCHANGED <<backend, cfg, seenCfg, running, w_pc, w_iter, pkts_rx, w_i, pkts_tx,
                   w_sent, stats_batch, wstats, now, g_rx, g_sendcnt, g_relcnt, g_recv,
                   g_held, rvars, rctx, wctx, api, g_sup>>

\* the kernel transmits the next TX frame that is marked for sending
PktKernelTx ==
    /\ backend = "pkt_v3"
    /\ pctx.tx_ring[pctx.kernel_tx].tp_status = "TP_STATUS_SEND_REQUEST"
    /\ LET t == pctx.tx_ring[pctx.kernel_tx]
       IN  pctx' = [pctx EXCEPT
                        !.wire = Append(@, [data |-> t.data, len |-> t.len]),
                        !.tx_ring[pctx.kernel_tx] =
                            [tp_status |-> "TP_STATUS_AVAILABLE", data |-> <<>>, len |-> 0],
                        !.kernel_tx = (@ + 1) % TxRingFrames]
    /\ UNCHANGED <<backend, mem, cfg, seenCfg, running, w_pc, w_iter, pkts_rx, w_i,
                   pkts_tx, w_sent, stats_batch, wstats, now, g_rx, g_sendcnt,
                   g_relcnt, g_recv,
                   g_held, rvars, rctx, wctx, api, g_sup>>

InitPkt ==
    InitWorker("pkt_v3", PktInitCtx,
               [a \in 0..(PACKET_BLOCK_NR * BlockFrames - 1) |-> PadBuffer],
               {TestConfig})

NextPkt == WorkerNext \/ PktKernelFill \/ PktKernelTx

SpecPkt == InitPkt /\ [][NextPkt]_vars

(***************************************************************************)
(* The worker on the BPF platform                                          *)
(***************************************************************************)
InitBpf ==
    InitWorker("bpf", BpfInitCtx, [a \in 0..(BpfReadRecords - 1) |-> PadBuffer],
               {TestConfig})

NextBpf == WorkerNext \/ GetStats

SpecBpf == InitBpf /\ [][NextBpf]_vars

\* the worker thread keeps running its loop (worker_loop never blocks
\* longer than the poll timeout); reflector_stop may or may not come
SpecBpfLive ==
    /\ InitBpf /\ [][NextBpf]_vars
    /\ WF_vars(WorkerRecv \/ WorkerAccept \/ WorkerReject \/ WorkerSend
                 \/ WorkerRelease \/ WorkerExit)

(***************************************************************************)
(* Statistics of several workers: each worker fills and flushes its batch  *)
(* and another thread calls reflector_get_stats                            *)
(***************************************************************************)
\* workers of a run (rctx->num_workers)
StatsWorkers == 2

\* latencies a frame can have, in ns
MaxLatency == 3

\* frames a run reflects with a latency measured, and the non-empty
\* batches its workers receive
MaxSamples == 3
StatsIters == 4

\* the same where reflector_get_stats runs next to the flushes
RaceSamples == 2
RaceIters == 2

\* the workers run ("loop": at the loop test of worker_thread, "flush" and
\* "final": before statement fstep of the flush_stats_batch of line 232 and
\* of line 237, "done": returned); the traffic that will arrive is iters
\* batches with samples frames to reflect
InitStats(iters, samples) ==
    /\ rctx = [running |-> TRUE]
    /\ wctx = [i \in 1..StatsWorkers |->
                [stats |-> ZeroStats, stats_batch |-> ZeroStatsBatch,
                 pc |-> "loop", fstep |-> 0]]
    /\ api = [pc |-> "idle"]
    /\ g_sup = [iters |-> iters, left |-> samples,
                samples |-> [v \in 1..MaxLatency |-> 0], quiet |-> TRUE,
                recv |-> [i \in 1..StatsWorkers |-> [pkts |-> 0, bytes |-> 0]],
                begin |-> [stats |-> <<>>, samples |-> <<>>, flushed |-> FALSE]]
    /\ ReflectIdle /\ WorkerIdle

\* core.c:132-233: one iteration of worker i that receives frames, of
\* which it reflects those with the latencies ss (a batch without such a
\* frame holds one frame that is rejected); every send succeeds
StatsIter(i) ==
    /\ wctx[i].pc = "loop" /\ g_sup.iters > 0
    /\ \E ss \in UNION {[1..n -> 1..MaxLatency] : n \in 0..Min(BATCH_SIZE, g_sup.left)} :
        LET n == Max(Len(ss), 1)
            len == ProbeFrame.len
            add[k \in 0..Len(ss)] ==
                IF k = 0 THEN wctx[i].stats_batch.latency_batch
                ELSE latency_batch_add(add[k - 1], ss[k])
            b == [wctx[i].stats_batch EXCEPT
                    !.packets_received = @ + n,
                    !.bytes_received = @ + n * len,
                    !.sig_probeot_count = @ + Len(ss),
                    !.latency_batch = add[Len(ss)],
                    !.packets_reflected = @ + Len(ss),
                    !.bytes_reflected = @ + Len(ss) * len,
                    !.batch_count = @ + 1]
        IN  /\ wctx' = [wctx EXCEPT ![i] =
                          IF b.batch_count >= STATS_FLUSH_BATCHES
                          THEN [@ EXCEPT !.stats_batch = b, !.pc = "flush", !.fstep = 1]
                          ELSE [@ EXCEPT !.stats_batch = b]]
            /\ g_sup' = [g_sup EXCEPT
                            !.iters = @ - 1, !.left = @ - Len(ss),
                            !.recv[i] = [pkts |-> @.pkts + n, bytes |-> @.bytes + n * len],
                            !.samples = [v \in 1..MaxLatency |->
                                @[v] + Cardinality({k \in 1..Len(ss) : ss[k] = v})]]
    /\ UNCHANGED <<rctx, api, rvars, wvars>>

\* core.c:132, 237, 57-59: reflector_stop has cleared the flag of worker i
\* and its loop test fails: the final flush begins, or returns at once on
\* an empty batch
StatsExit(i) ==
    /\ wctx[i].pc = "loop"
    /\ wctx' = [wctx EXCEPT ![i] =
                  IF @.stats_batch.batch_count = 0 THEN [@ EXCEPT !.pc = "done"]
                  ELSE [@ EXCEPT !.pc = "final", !.fstep = 1]]
    /\ UNCHANGED <<rctx, api, g_sup, rvars, wvars>>

\* flush_stats_batch without the memset of line 101
StatsFlush_keepBatch(i) ==
    /\ wctx[i].pc \in {"flush", "final"}
    /\ LET stats == wctx[i].stats
           batch == wctx[i].stats_batch
           lb == batch.latency_batch
           first == stats.latency.count = lb.count
           last == IF lb.count > 0 THEN 6 ELSE 1
           st == CASE wctx[i].fstep = 1 ->
                        [stats EXCEPT
                            !.packets_received = @ + batch.packets_received,
                            !.packets_reflected = @ + batch.packets_reflected,
                            !.bytes_received = @ + batch.bytes_received,
                            !.bytes_reflected = @ + batch.bytes_reflected,
                            !.sig_probeot_count = @ + batch.sig_probeot_count,
                            !.sig_dataot_count = @ + batch.sig_dataot_count,
                            !.sig_latency_count = @ + batch.sig_latency_count,
                            !.sig_unknown_count = @ + batch.sig_unknown_count,
                            !.err_tx_failed = @ + batch.err_tx_failed,
                            !.tx_errors = @ + batch.err_tx_failed]
                  [] wctx[i].fstep = 2 -> [stats EXCEPT !.latency.count = @ + lb.count]
                  [] wctx[i].fstep = 3 -> [stats EXCEPT !.latency.total_ns = @ + lb.total_ns]
                  [] wctx[i].fstep = 4 ->
                        [stats EXCEPT !.latency.min_ns =
                            IF first \/ lb.min_ns < @ THEN lb.min_ns ELSE @]
                  [] wctx[i].fstep = 5 ->
                        [stats EXCEPT !.latency.max_ns =
                            IF first \/ lb.max_ns > @ THEN lb.max_ns ELSE @]
                  [] OTHER ->
                        [stats EXCEPT !.latency.avg_ns =
                            stats.latency.total_ns \div stats.latency.count]
       IN  wctx' = [wctx EXCEPT ![i] =
                      IF @.fstep = last
                      THEN [@ EXCEPT !.stats = st,
                                     !.fstep = 0,
                                     !.pc = IF @ = "final" THEN "done" ELSE "loop"]
                      ELSE [@ EXCEPT !.stats = st, !.fstep = @ + 1]]
    /\ g_sup' = [g_sup EXCEPT !.quiet = @ /\ api.pc # "read"]
    /\ UNCHANGED <<rctx, api, rvars, wvars>>

\* worker i executes the next statement of flush_stats_batch as another
\* thread can see it: the counter additions of lines 62-75 (independent
\* words, taken together), then the statements of the latency merge of
\* lines 78-97 one by one; the memset of the local batch goes with the
\* last statement
StatsFlush(i) ==
    /\ wctx[i].pc \in {"flush", "final"}
    /\ LET stats == wctx[i].stats
           batch == wctx[i].stats_batch
           lb == batch.latency_batch
           first == stats.latency.count = lb.count
           last == IF lb.count > 0 THEN 6 ELSE 1
           st == CASE wctx[i].fstep = 1 ->
                        [stats EXCEPT
                            !.packets_received = @ + batch.packets_received,
                            !.packets_reflected = @ + batch.packets_reflected,
                            !.bytes_received = @ + batch.bytes_received,
                            !.bytes_reflected = @ + batch.bytes_reflected,
                            !.sig_probeot_count = @ + batch.sig_probeot_count,
                            !.sig_dataot_count = @ + batch.sig_dataot_count,
                            !.sig_latency_count = @ + batch.sig_latency_count,
                            !.sig_unknown_count = @ + batch.sig_unknown_count,
                            !.err_tx_failed = @ + batch.err_tx_failed,
                            !.tx_errors = @ + batch.err_tx_failed]
                  [] wctx[i].fstep = 2 -> [stats EXCEPT !.latency.count = @ + lb.count]
                  [] wctx[i].fstep = 3 -> [stats EXCEPT !.latency.total_ns = @ + lb.total_ns]
                  [] wctx[i].fstep = 4 ->
                        [stats EXCEPT !.latency.min_ns =
                            IF first \/ lb.min_ns < @ THEN lb.min_ns ELSE @]
                  [] wctx[i].fstep = 5 ->
                        [stats EXCEPT !.latency.max_ns =
                            IF first \/ lb.max_ns > @ THEN lb.max_ns ELSE @]
                  [] OTHER ->
                        [stats EXCEPT !.latency.avg_ns =
                            stats.latency.total_ns \div stats.latency.count]
       IN  wctx' = [wctx EXCEPT ![i] =
                      IF @.fstep = last
                      THEN [@ EXCEPT !.stats = st, !.stats_batch = ZeroStatsBatch,
                                     !.fstep = 0,
                                     !.pc = IF @ = "final" THEN "done" ELSE "loop"]
                      ELSE [@ EXCEPT !.stats = st, !.fstep = @ + 1]]
    /\ g_sup' = [g_sup EXCEPT !.quiet = @ /\ api.pc # "read"]
    /\ UNCHANGED <<rctx, api, rvars, wvars>>

\* reflector_get_stats while no worker is inside flush_stats_batch
StatsGet ==
    /\ api.pc = "idle"
    /\ \A i \in 1..StatsWorkers : wctx[i].pc \in {"loop", "done"}
    /\ api_stats' = [valid |-> TRUE,
                     stats |-> reflector_get_stats([i \in 1..StatsWorkers |-> wctx[i].stats])]
    /\ api' = [api EXCEPT !.pc = "done"]
    /\ g_sup' = [g_sup EXCEPT
                    !.quiet = TRUE,
                    !.begin = [stats |-> [i \in 1..StatsWorkers |-> wctx[i].stats],
                               samples |-> g_sup.samples,
                               flushed |-> \A i \in 1..StatsWorkers :
                                   wctx[i].stats_batch.latency_batch.count = 0]]
    /\ UNCHANGED <<rctx, wctx, r_hist, r_len, r_fn, r_mode, r_csum, r_cfg, c_out, wvars>>

\* the thread in reflector_get_stats executes its next statement: the
\* memset (core.c:659); for the worker i the counter additions of lines
\* 663-687 (r = 1), the test of line 690 (2), lines 691 and 692 (3, 4), the
\* test of line 695 (5), the minimum and the maximum of lines 697-705
\* (6, 7); the average of lines 711-713
GetStatsStep ==
    /\ api.pc \in {"idle", "read", "avg"}
    /\ IF api.pc = "idle"
       THEN /\ api' = [pc |-> "read", i |-> 1, r |-> 1, first |-> FALSE,
                       stats |-> ZeroStats]
            /\ g_sup' = [g_sup EXCEPT
                            !.quiet = TRUE,
                            !.begin = [stats |-> [i \in 1..StatsWorkers |-> wctx[i].stats],
                                       samples |-> g_sup.samples,
                                       flushed |-> \A i \in 1..StatsWorkers :
                                           wctx[i].stats_batch.latency_batch.count = 0]]
            /\ UNCHANGED api_stats
       ELSE IF api.pc = "avg"
       THEN /\ api_stats' =
                [valid |-> TRUE,
                 stats |-> IF api.stats.latency.count > 0
                           THEN [api.stats EXCEPT !.latency.avg_ns =
                                    api.stats.latency.total_ns \div api.stats.latency.count]
                           ELSE api.stats]
            /\ api' = [api EXCEPT !.pc = "done"]
            /\ UNCHANGED g_sup
       ELSE LET w == wctx[api.i].stats
                st == api.stats
                next == IF api.i < StatsWorkers
                        THEN [api EXCEPT !.i = @ + 1, !.r = 1]
                        ELSE [api EXCEPT !.pc = "avg"]
            IN  /\ api' =
                     CASE api.r = 1 ->
                            [api EXCEPT !.r = 2, !.stats =
                                AddWorkerStats(st, [w EXCEPT !.latency = ZeroLatency])]
                       [] api.r = 2 ->
                            IF w.latency.count > 0 THEN [api EXCEPT !.r = 3] ELSE next
                       [] api.r = 3 ->
                            [api EXCEPT !.r = 4, !.stats.latency.count = @ + w.latency.count]
                       [] api.r = 4 ->
                            [api EXCEPT !.r = 5,
                                        !.stats.latency.total_ns = @ + w.latency.total_ns]
                       [] api.r = 5 ->
                            [api EXCEPT !.r = 6,
                                        !.first = st.latency.count = w.latency.count]
                       [] api.r = 6 ->
                            [api EXCEPT !.r = 7, !.stats.latency.min_ns =
                                IF api.first \/ w.latency.min_ns < @
                                THEN w.latency.min_ns ELSE @]
                       [] OTHER ->
                            [next EXCEPT !.stats.latency.max_ns =
                                IF api.first \/ w.latency.max_ns > @
                                THEN w.latency.max_ns ELSE @]
                /\ UNCHANGED <<g_sup, api_stats>>
    /\ UNCHANGED <<rctx, wctx, r_hist, r_len, r_fn, r_mode, r_csum, r_cfg, c_out, wvars>>

NextStats ==
    \/ \E i \in 1..StatsWorkers : StatsIter(i) \/ StatsFlush(i) \/ StatsExit(i)
    \/ StatsGet

SpecStats == InitStats(StatsIters, MaxSamples) /\ [][NextStats]_vars

NextRace ==
    \/ \E i \in 1..StatsWorkers : StatsIter(i) \/ StatsFlush(i) \/ StatsExit(i)
    \/ GetStatsStep

SpecRace == InitStats(RaceIters, RaceSamples) /\ [][NextRace]_vars

(***************************************************************************)
(* Supervisor: one thread calls reflector_set_config, reflector_get_config,*)
(* reflector_start, reflector_stop and reflector_cleanup on a context that *)
(* reflector_init has set up, while the worker threads it created run      *)
(* (Linux build: pthreads, AF_XDP with AF_PACKET fallback, or AF_PACKET)   *)
(***************************************************************************)
\* the largest worker count the header allows (16 in the source)
MAX_WORKERS == 2

\* the handles of the filter program and its maps that an AF_XDP context
\* or the statics g_bpf_obj, g_*_map_fd of xdp_platform.c:32-37 hold:
\* "unset" is NULL resp. -1, "zero" the 0 calloc leaves, "obj" those of the
\* object load_xdp_program loaded, "closed" those of an object that
\* bpf_object__close has closed since
XdpHandles(bpf_obj, xsks_map_fd, sig_map_fd) ==
    [bpf_obj |-> bpf_obj, xsks_map_fd |-> xsks_map_fd, sig_map_fd |-> sig_map_fd]

\* the history the supervisor model keeps of one reflector_start: the
\* calls of drop_privileges (with the contexts initialised and the threads
\* created before), the runs of load_xdp_program (and whether one was in
\* the init of a worker other than 0), whether an operation of one
\* backend was performed on a context of another, the joins of threads
\* never created and the cleanups of contexts already freed, and the last
\* reflector_get_stats or reflector_reset_stats
SupHistory ==
    [drop |-> [count |-> 0, inited |-> 0, threads |-> 0],
     setups |-> [count |-> 0, other |-> FALSE],
     foreign |-> FALSE,
     bad |-> [join |-> FALSE, cleanup |-> FALSE],
     stat |-> [called |-> FALSE]]

\* after reflector_init (core.c:246-388): platform_ops chosen, num_workers
\* the number of RX queues of the interface, nothing allocated; the statics
\* of the AF_XDP platform have their initialisers
InitSup ==
    /\ \E ops \in {"xdp", "packet"}, queues \in 1..MAX_WORKERS + 1 :
          rctx = [running |-> FALSE,
                  config |-> [num_workers |-> queues, measure_latency |-> FALSE],
                  num_workers |-> 0, workers |-> FALSE, platform_ops |-> ops,
                  g_bpf |-> XdpHandles("unset", "unset", "unset")]
    /\ wctx = <<>>
    /\ api = [pc |-> "idle", i |-> 0, in_start |-> FALSE]
    /\ g_sup = [set |-> [called |-> FALSE], got |-> [valid |-> FALSE],
                closes |-> [i \in 1..MAX_WORKERS + 1 |-> 0],
                after |-> [i \in 1..MAX_WORKERS + 1 |-> 0],
                stops |-> 0, start |-> SupHistory]
    /\ ReflectIdle /\ WorkerIdle

\* xdp_platform_cleanup, packet_platform_cleanup, bpf_platform_cleanup: the
\* worker context left, and whether the resources behind pctx were released
\* (socket, rings or UMEM, program, the context itself), and whether the
\* filter object was closed (xdp_platform.c:396-399: worker 0 with a
\* bpf_obj)
platform_cleanup_keepPtr(w) ==
    IF w.pctx = "null" THEN [wctx |-> w, released |-> FALSE, closed |-> FALSE]
    ELSE [wctx |-> w, released |-> TRUE,
          closed |-> w.ops = "xdp" /\ w.worker_id = 0 /\ w.handles.bpf_obj # "unset"]

platform_cleanup(w) ==
    IF w.pctx = "null" THEN [wctx |-> w, released |-> FALSE, closed |-> FALSE]
    ELSE [wctx |-> [w EXCEPT !.pctx = "null"], released |-> TRUE,
          closed |-> w.ops = "xdp" /\ w.worker_id = 0 /\ w.handles.bpf_obj # "unset"]

\* reflector_set_config without the test of rctx->running
SupConfig_noGuard ==
    /\ api.pc = "idle"
    /\ \/ \E a \in {[null |-> TRUE]} \cup
                   {[null |-> FALSE, config |-> c] :
                       c \in [num_workers : 1..MAX_WORKERS + 1, measure_latency : BOOLEAN]} :
            LET ret == IF a.null THEN -1 ELSE 0
            IN  /\ rctx' = IF ret = 0 THEN [rctx EXCEPT !.config = a.config] ELSE rctx
                /\ g_sup' = [g_sup EXCEPT
                                !.set = [called |-> TRUE, arg |-> a, ret |-> ret,
                                         before |-> rctx.config,
                                         was_running |-> rctx.running],
                                !.got = [valid |-> FALSE],
                                !.start.stat = [called |-> FALSE]]
       \/ /\ g_sup' = [g_sup EXCEPT !.got = [valid |-> TRUE, config |-> rctx.config],
                                    !.start.stat = [called |-> FALSE]]
          /\ UNCHANGED rctx
    /\ UNCHANGED <<wctx, api, rvars, wvars>>

\* core.c:726-750: the thread calls reflector_set_config with a
\* configuration or with NULL, or reflector_get_config
SupConfig ==
    /\ api.pc = "idle"
    /\ \/ \E a \in {[null |-> TRUE]} \cup
                   {[null |-> FALSE, config |-> c] :
                       c \in [num_workers : 1..MAX_WORKERS + 1, measure_latency : BOOLEAN]} :
            LET ret == IF a.null \/ rctx.running THEN -1 ELSE 0
            IN  /\ rctx' = IF ret = 0 THEN [rctx EXCEPT !.config = a.config] ELSE rctx
                /\ g_sup' = [g_sup EXCEPT
                                !.set = [called |-> TRUE, arg |-> a, ret |-> ret,
                                         before |-> rctx.config,
                                         was_running |-> rctx.running],
                                !.got = [valid |-> FALSE],
                                !.start.stat = [called |-> FALSE]]
       \/ /\ g_sup' = [g_sup EXCEPT !.got = [valid |-> TRUE, config |-> rctx.config],
                                    !.start.stat = [called |-> FALSE]]
          /\ UNCHANGED rctx
    /\ UNCHANGED <<wctx, api, rvars, wvars>>

\* core.c:391-586, reflector_start called while not running: the arrays
\* are allocated zeroed (the allocations succeed) and running is set; then
\* one pass of the loop per step: the fields of worker i, platform init with
\* the AF_PACKET fallback of an AF_XDP that fails, pthread_create. Every
\* init sets wctx->pctx and frees the context on failure without clearing
\* the pointer (xdp_platform.c:280-367, packet_platform.c:148-239). A
\* failure goes to reflector_stop from inside reflector_start
SupStart ==
    /\ \/ /\ api.pc = "idle" /\ ~rctx.running
          /\ rctx' = [rctx EXCEPT !.num_workers = rctx.config.num_workers,
                                  !.workers = TRUE, !.running = TRUE]
          /\ wctx' = [i \in 1..rctx.config.num_workers |->
                        [worker_id |-> 0, queue_id |-> 0, running |-> FALSE,
                         pctx |-> "null", ops |-> "none", pc |-> "none",
                         handles |-> XdpHandles("unset", "unset", "unset")]]
          /\ api' = [pc |-> "start", i |-> 1, in_start |-> TRUE]
          /\ g_sup' = [g_sup EXCEPT
                          !.set = [called |-> FALSE], !.got = [valid |-> FALSE],
                          !.closes = [i \in 1..MAX_WORKERS + 1 |-> 0],
                          !.after = [i \in 1..MAX_WORKERS + 1 |-> 0],
                          !.stops = 0, !.start = SupHistory]
       \/ /\ api.pc = "start"
          /\ \E init_ok, fallback_ok, thread_ok, filter \in BOOLEAN :
                LET i == api.i
                    xdp == rctx.platform_ops = "xdp"
                    fallback == ~init_ok /\ xdp
                    ops == IF fallback THEN "packet" ELSE rctx.platform_ops
                    ok == init_ok \/ (fallback /\ fallback_ok)
                    \* xdp_platform.c:339-356: worker 0 runs load_xdp_program
                    \* when its UMEM is set up; filter: the object was
                    \* loaded and its handles saved to the statics
                    \* (xdp_platform.c:196-201), else there is no object
                    \* file or the init fails before; an init that fails
                    \* after the handles were saved closes the object
                    setup == xdp /\ i = 1 /\ (init_ok \/ filter)
                    loaded == XdpHandles("obj", "obj", "obj")
                    g_bpf == IF xdp /\ i = 1 /\ filter
                             THEN IF init_ok THEN loaded
                                  ELSE XdpHandles("closed", "closed", "closed")
                             ELSE rctx.g_bpf
                    handles == IF ~(xdp /\ init_ok)
                               THEN XdpHandles("unset", "unset", "unset")
                               ELSE IF i = 1
                               THEN IF filter THEN loaded
                                    ELSE XdpHandles("unset", "unset", "zero")
                               ELSE rctx.g_bpf
                    \* core.c:540-548: drop_privileges after the init of
                    \* worker 0; its result is logged and not used
                    drop == ok /\ i = 1
                IN  /\ filter => xdp /\ i = 1
                    /\ wctx' = [wctx EXCEPT ![i] =
                                  [worker_id |-> i - 1, queue_id |-> i - 1,
                                   running |-> TRUE,
                                   pctx |-> IF ok THEN "live" ELSE "freed",
                                   ops |-> ops,
                                   pc |-> IF ok /\ thread_ok THEN "test" ELSE "none",
                                   handles |-> handles]]
                    /\ rctx' = [rctx EXCEPT !.platform_ops = ops, !.g_bpf = g_bpf]
                    /\ api' = IF ~(ok /\ thread_ok) THEN [api EXCEPT !.pc = "stop"]
                              ELSE IF i < rctx.num_workers THEN [api EXCEPT !.i = i + 1]
                              ELSE [pc |-> "idle", i |-> 0, in_start |-> FALSE]
                    /\ g_sup' = [g_sup EXCEPT
                          !.start.setups =
                              IF setup THEN [count |-> Min(@.count + 1, 2),
                                             other |-> @.other \/ i # 1]
                              ELSE @,
                          !.start.drop =
                              IF drop
                              THEN [count |-> Min(@.count + 1, 2),
                                    inited |-> Cardinality({j \in DOMAIN wctx' :
                                                    wctx'[j].pctx = "live"}),
                                    threads |-> Cardinality({j \in DOMAIN wctx :
                                                    wctx[j].pc # "none"})]
                              ELSE @]
    /\ UNCHANGED <<rvars, wvars>>

\* core.c:589-654: reflector_stop (called by the thread, by reflector_start
\* on a failure, or by reflector_cleanup, which calls it only while
\* rctx->running). It clears the flags, then with the worker array present
\* joins every worker_tids[i] (a thread that was never created has a
\* zeroed id: pthread_join on it fails or faults), calls the cleanup of the
\* platform for every worker, frees the arrays and clears the pointers
SupStop ==
    /\ \/ /\ api.pc \in {"idle", "stop"}
          /\ \E fn \in {"reflector_stop", "reflector_cleanup"} :
                /\ api.pc = "stop" => fn = "reflector_stop"
                /\ IF fn = "reflector_cleanup" /\ ~rctx.running
                   THEN UNCHANGED <<rctx, wctx, api>>
                   ELSE /\ rctx' = [rctx EXCEPT !.running = FALSE]
                        /\ wctx' = [i \in DOMAIN wctx |-> [wctx[i] EXCEPT !.running = FALSE]]
                        /\ api' = IF rctx.workers THEN [api EXCEPT !.pc = "join", !.i = 1]
                                  ELSE [pc |-> "idle", i |-> 0, in_start |-> FALSE]
                /\ g_sup' = [g_sup EXCEPT
                                !.set = [called |-> FALSE], !.got = [valid |-> FALSE],
                                !.start.stat = [called |-> FALSE],
                                !.stops = IF rctx.workers
                                             /\ ~(fn = "reflector_cleanup" /\ ~rctx.running)
                                          THEN @ ELSE Min(@ + 1, 2)]
       \/ /\ api.pc = "join"
          /\ wctx[api.i].pc \in {"none", "done"}
          /\ \E fault \in BOOLEAN :
                /\ fault => wctx[api.i].pc = "none"
                /\ api' = IF fault THEN [api EXCEPT !.pc = "fault"]
                          ELSE IF api.i < rctx.num_workers THEN [api EXCEPT !.i = @ + 1]
                          ELSE [api EXCEPT !.pc = "cleanup", !.i = 1]
          /\ g_sup' = [g_sup EXCEPT !.start.bad.join = @ \/ wctx[api.i].pc = "none"]
          /\ UNCHANGED <<rctx, wctx>>
       \/ /\ api.pc = "cleanup"
          /\ LET c == platform_cleanup(wctx[api.i])
             IN  /\ wctx' = [wctx EXCEPT ![api.i] = c.wctx]
                 /\ rctx' = IF c.closed
                            THEN [rctx EXCEPT !.g_bpf =
                                    IF @.bpf_obj = "obj"
                                    THEN XdpHandles("closed", "closed", "closed") ELSE @]
                            ELSE rctx
                 /\ g_sup' = [g_sup EXCEPT
                        !.closes[api.i] = IF c.released THEN Min(@ + 1, 2) ELSE @,
                        !.start.bad.cleanup = @ \/ wctx[api.i].pctx = "freed",
                        !.start.foreign =
                            @ \/ (wctx[api.i].pctx # "null"
                                    /\ wctx[api.i].ops # rctx.platform_ops)]
          /\ api' = IF api.i < rctx.num_workers THEN [api EXCEPT !.i = @ + 1]
                    ELSE [api EXCEPT !.pc = "free"]
       \/ /\ api.pc = "free"
          /\ rctx' = [rctx EXCEPT !.workers = FALSE]
          /\ wctx' = <<>>
          /\ api' = [pc |-> "idle", i |-> 0, in_start |-> FALSE]
          /\ g_sup' = [g_sup EXCEPT !.stops = Min(@ + 1, 2), !.start = SupHistory]
    /\ UNCHANGED <<rvars, wvars>>

\* worker_thread that tests its flag once, before the first iteration
SupWorker_oneTest(i) ==
    /\ i \in DOMAIN wctx /\ api.pc # "fault"
    /\ \/ /\ wctx[i].pc = "test"
          /\ wctx' = [wctx EXCEPT ![i].pc = IF wctx[i].running THEN "go" ELSE "exit"]
          /\ UNCHANGED g_sup
       \/ /\ wctx[i].pc = "go"
          /\ wctx' = [wctx EXCEPT ![i].pc = "recv"]
          /\ g_sup' = [g_sup EXCEPT
                          !.after[i] = IF wctx[i].running THEN @ ELSE Min(@ + 1, 2),
                          !.start.foreign = @ \/ wctx[i].ops # rctx.platform_ops]
       \/ /\ wctx[i].pc = "recv"
          /\ wctx' = [wctx EXCEPT ![i].pc = "go"]
          /\ UNCHANGED g_sup
       \/ /\ wctx[i].pc = "exit"
          /\ wctx' = [wctx EXCEPT ![i].pc = "done"]
          /\ UNCHANGED g_sup
    /\ UNCHANGED <<rctx, api, rvars, wvars>>

\* core.c:108-239: worker i loads its volatile running flag (line 132:
\* "test"), branches on the value loaded ("go": into the next iteration,
\* "exit": to the final flush of line 237 and the return), and inside an
\* iteration ("recv") comes back from recv_batch within its bounded wait
\* and processes the batch. Every operation of the iteration goes through
\* the static platform_ops of core.c:37 as it is at that time
SupWorker(i) ==
    /\ i \in DOMAIN wctx /\ api.pc # "fault"
    /\ \/ /\ wctx[i].pc = "test"
          /\ wctx' = [wctx EXCEPT ![i].pc = IF wctx[i].running THEN "go" ELSE "exit"]
          /\ UNCHANGED g_sup
       \/ /\ wctx[i].pc = "go"
          /\ wctx' = [wctx EXCEPT ![i].pc = "recv"]
          /\ g_sup' = [g_sup EXCEPT
                          !.after[i] = IF wctx[i].running THEN @ ELSE Min(@ + 1, 2),
                          !.start.foreign = @ \/ wctx[i].ops # rctx.platform_ops]
       \/ /\ wctx[i].pc = "recv"
          /\ wctx' = [wctx EXCEPT ![i].pc = "test"]
          /\ UNCHANGED g_sup
       \/ /\ wctx[i].pc = "exit"
          /\ wctx' = [wctx EXCEPT ![i].pc = "done"]
          /\ UNCHANGED g_sup
    /\ UNCHANGED <<rctx, api, rvars, wvars>>

\* core.c:657-723: the thread calls reflector_get_stats or
\* reflector_reset_stats: a loop over rctx->workers[0 .. num_workers - 1]
SupStats ==
    /\ api.pc = "idle"
    /\ \E fn \in {"reflector_get_stats", "reflector_reset_stats"} :
          g_sup' = [g_sup EXCEPT
                      !.set = [called |-> FALSE], !.got = [valid |-> FALSE],
                      !.start.stat =
                          [called |-> TRUE, fn |-> fn, indexed |-> rctx.num_workers,
                           present |-> IF rctx.workers THEN Len(wctx) ELSE 0]]
    /\ UNCHANGED <<rctx, wctx, api, rvars, wvars>>

NextSup ==
    \/ SupConfig
    \/ SupStart
    \/ SupStop
    \/ SupStats
    \/ \E i \in 1..MAX_WORKERS + 1 : SupWorker(i)

SpecSup == InitSup /\ [][NextSup]_vars

\* the scheduler runs every worker thread again and again, and a
\* recv_batch returns within its poll timeout
SpecSupLive ==
    InitSup /\ [][NextSup]_vars /\ \A i \in 1..MAX_WORKERS + 1 : WF_vars(SupWorker(i))

(***************************************************************************)
(* Properties of the codec                                                 *)
(***************************************************************************)
WithChecksumFns == {"with_checksum_sse2", "with_checksum_neon", "with_checksum_scalar"}

\* the frame the harness drew, its first and its second reflection
r_F == r_hist[1]
r_R1 == r_hist[2]
r_R2 == r_hist[3]

IhlOf(data) == Rd(data, ETH_HDR_LEN + IP_VER_IHL_OFFSET) % 16

\* offset of the byte of F that a full reflection puts at offset k
FullSwapSource(k, u) ==
    IF k >= 0 /\ k < 6 THEN k + 6
    ELSE IF k >= 6 /\ k < 12 THEN k - 6
    ELSE IF k >= 26 /\ k < 30 THEN k + 4
    ELSE IF k >= 30 /\ k < 34 THEN k - 4
    ELSE IF k >= u /\ k < u + 2 THEN k + 2
    ELSE IF k >= u + 2 /\ k < u + 4 THEN k - 2
    ELSE k

\* C7: for a frame the classifier accepts, reflect in MAC+IP+UDP mode with
\* checksum off exchanges the two MACs, the two IPv4 addresses and the two
\* UDP ports and leaves every other byte as it was.
C7_FullSwapOnly ==
    (/\ Len(r_hist) >= 2
     /\ ~r_csum
     /\ (r_fn = "with_mode" /\ r_mode = REFLECT_MODE_ALL) \/ r_fn \in WithChecksumFns
     /\ is_ito_packet(r_F, r_len, r_cfg))
    => \A k \in 0..(BufLen - 1) :
          Rd(r_R1, k) = Rd(r_F, FullSwapSource(k, ETH_HDR_LEN + 4 * IhlOf(r_F)))

\* C7 witness: an accepted frame went through a full-mode reflect with
\* checksum off and now carries the peer's MAC as destination
C7_Witness ==
    /\ Len(r_hist) >= 2
    /\ ~r_csum
    /\ r_fn = "with_mode" /\ r_mode = REFLECT_MODE_ALL
    /\ is_ito_packet(r_F, r_len, r_cfg)
    /\ Slice(r_R1, ETH_DST_OFFSET, 6) = PeerMac
    /\ Slice(r_R1, ETH_SRC_OFFSET, 6) = LocalMac
    /\ r_R1 # r_F

\* the frame length below which the headers the mode swaps do not fit
HeadersNeeded(fn, data, mode) ==
    LET etype == Rd16(data, ETH_TYPE_OFFSET)
        ip_offset == IF fn = "ipv6" /\ (etype = ETH_P_8021Q \/ etype = ETH_P_8021AD)
                     THEN ETH_HDR_LEN + VLAN_HDR_LEN ELSE ETH_HDR_LEN
        ip_end == IF fn = "ipv6" THEN ip_offset + IPV6_HDR_LEN
                  ELSE ip_offset + IP_HDR_MIN_LEN
        ports_end == IF fn = "ipv6" THEN ip_offset + IPV6_HDR_LEN + 4
                     ELSE ip_offset + 4 * IhlOf(data) + 4
    IN  IF mode = REFLECT_MODE_MAC THEN ETH_HDR_LEN
        ELSE IF mode = REFLECT_MODE_MAC_IP THEN ip_end
        ELSE IF ports_end > ip_end THEN ports_end ELSE ip_end

\* C9: if the frame is too short to hold all the headers the mode swaps,
\* reflect changes no byte of it (no partial swap).
C9_NoPartialSwap ==
    (/\ Len(r_hist) >= 2
     /\ r_fn \in {"with_mode", "ipv6"}
     /\ r_len < HeadersNeeded(r_fn, r_F, r_mode))
    => r_R1 = r_F

\* C10 as stated: reflect applied twice, with the same software_checksum
\* setting both times, gives back the frame bytewise, for any frame.
C10_InvolutionAnyFrame ==
    (Len(r_hist) >= 3 /\ r_fn \in ({"with_mode"} \cup WithChecksumFns))
    => r_R2 = r_F

\* the offsets of the IPv4 header checksum and of the UDP checksum
ChecksumOffsets(data) ==
    LET u == ETH_HDR_LEN + 4 * IhlOf(data)
    IN  {ETH_HDR_LEN + 10, ETH_HDR_LEN + 11, u + 6, u + 7}

\* C10 amended: reflect_packet_with_mode on any frame, and the worker's
\* reflect_packet_with_checksum on any frame with IHL >= 5, applied twice:
\* with checksum off the result is the frame bytewise; with checksum on
\* both times it is the frame in every byte outside the IPv4 and UDP
\* checksum fields, and the frame bytewise when the first reflect left
\* those fields as they were (the frame carried the checksums computed).
C10_InvolutionAmended ==
    (/\ Len(r_hist) >= 3
     /\ r_fn = "with_mode" \/ (r_fn \in WithChecksumFns /\ IhlOf(r_F) >= 5))
    => /\ ~r_csum => r_R2 = r_F
       /\ \A k \in (0..(BufLen - 1)) \ ChecksumOffsets(r_F) : Rd(r_R2, k) = Rd(r_F, k)
       /\ (\A k \in ChecksumOffsets(r_F) : Rd(r_R1, k) = Rd(r_F, k)) => r_R2 = r_F

\* C10 witness: an accepted frame with valid checksums was reflected twice
\* in full mode with checksum on; the first reflect changed it, the second
\* restored it
C10_Witness ==
    /\ Len(r_hist) >= 3
    /\ r_csum
    /\ r_fn = "with_mode" /\ r_mode = REFLECT_MODE_ALL
    /\ is_ito_packet(r_F, r_len, r_cfg)
    /\ r_R1 # r_F
    /\ r_R2 = r_F

\* the RFC 791 check of a received header: the one's-complement sum of
\* all its 16-bit words, checksum field included, is 0xFFFF
IpChecksumVerifies(data, iph, ihl_bytes) ==
    Fold16(SumWords(data, iph, 0, ihl_bytes \div 2, -1)) = 65535

\* the RFC 768 check: pseudo-header, UDP header and payload (an odd last
\* byte padded with zero), checksum field included, sum to 0xFFFF
UdpChecksumVerifies(data, iph, udph, udp_len) ==
    LET pseudo == Rd16(data, iph + 12) + Rd16(data, iph + 14)
                  + Rd16(data, iph + 16) + Rd16(data, iph + 18)
                  + IPPROTO_UDP + udp_len
        body == SumWords(data, udph, 0, udp_len \div 2, -1)
        odd == IF udp_len % 2 = 1 THEN Rd(data, udph + udp_len - 1) * 256 ELSE 0
    IN  Fold16(pseudo + body + odd) = 65535

\* an IPv4 frame that holds its whole IPv4 header
HoldsIpHeader(data, len) ==
    /\ Rd16(data, ETH_TYPE_OFFSET) = ETH_P_IP
    /\ IhlOf(data) >= 5
    /\ len >= ETH_HDR_LEN + 4 * IhlOf(data)

\* ... and the UDP datagram its length field announces
HoldsUdpDatagram(data, len) ==
    LET u == ETH_HDR_LEN + 4 * IhlOf(data)
    IN  /\ HoldsIpHeader(data, len)
        /\ len >= u + UDP_HDR_LEN
        /\ Rd16(data, u + 4) >= UDP_HDR_LEN
        /\ len >= u + Rd16(data, u + 4)

\* C11: after reflect with software_checksum = true, the IPv4 header
\* checksum of a frame that holds its IPv4 header verifies in every mode,
\* and in MAC+IP+UDP mode the UDP checksum of a frame that holds its
\* datagram verifies and is not 0.
C11_ChecksumsVerify ==
    (/\ Len(r_hist) >= 2
     /\ r_fn = "with_mode"
     /\ r_csum
     /\ HoldsIpHeader(r_F, r_len))
    => LET u == ETH_HDR_LEN + 4 * IhlOf(r_F)
       IN  /\ IpChecksumVerifies(r_R1, ETH_HDR_LEN, 4 * IhlOf(r_F))
           /\ (r_mode = REFLECT_MODE_ALL /\ HoldsUdpDatagram(r_F, r_len))
              => /\ UdpChecksumVerifies(r_R1, ETH_HDR_LEN, u, Rd16(r_F, u + 4))
                 /\ Rd16(r_R1, u + 6) # 0

\* the kernel a reflect_packet_with_checksum entry point of the harness
\* dispatches to
VariantOf(fn) ==
    CASE fn = "with_checksum_sse2" -> "sse2"
      [] fn = "with_checksum_neon" -> "neon"
      [] OTHER -> "scalar"

\* C12: on every frame (any IHL nibble, any length, checksum on or off) the
\* SSE2, NEON and scalar kernels leave the buffer in the same bytes: what
\* the kernel of the harness produced is what each of the three produces.
C12_VariantsAgree ==
    (Len(r_hist) >= 2 /\ r_fn \in WithChecksumFns)
    => /\ r_R1 = reflect_packet_with_checksum(r_F, r_len, r_csum, VariantOf(r_fn))
       /\ \A v \in Variants :
             /\ r_R1 = reflect_packet_with_checksum(r_F, r_len, r_csum, v)
             /\ reflect_packet_inplace(r_F, r_len, v)
                  = reflect_packet_inplace(r_F, r_len, VariantOf(r_fn))

\* C12 witness: the SSE2 kernel ran on a frame whose IHL nibble is 3, where
\* the port word at 14 + 12 lies on the IPv4 source address, changed it,
\* and the scalar kernel gives the same bytes
C12_Witness ==
    /\ Len(r_hist) >= 2
    /\ r_fn = "with_checksum_sse2"
    /\ IhlOf(r_F) = 3
    /\ r_R1 # r_F
    /\ Slice(r_R1, 26, 4) # Slice(r_F, 30, 4)
    /\ r_R1 = reflect_packet_with_checksum(r_F, r_len, r_csum, "scalar")

(***************************************************************************)
(* Properties of the classifier                                            *)
(***************************************************************************)
\* the signatures the configured filter lets through
FilterSet(filter) ==
    CASE filter = SIG_FILTER_ALL -> Signatures
      [] filter = SIG_FILTER_ITO -> {ITO_SIG_PROBEOT, ITO_SIG_DATAOT, ITO_SIG_LATENCY}
      [] filter = SIG_FILTER_RFC2544 -> {CUSTOM_SIG_RFC2544}
      [] filter = SIG_FILTER_Y1564 -> {CUSTOM_SIG_Y1564}
      [] filter = SIG_FILTER_CUSTOM -> {CUSTOM_SIG_RFC2544, CUSTOM_SIG_Y1564}

\* the frame passes every structural check of an untagged IPv4 frame: the
\* classifier accepts it once the signature filter is opened and a known
\* signature is put at payload offset 5
StructurallyValid(data, len, config) ==
    LET u == ETH_HDR_LEN + 4 * IhlOf(data)
    IN  /\ len >= MIN_ITO_PACKET_LEN
        /\ Slice(data, ETH_DST_OFFSET, 6) = config.mac
        /\ config.filter_oui => Slice(data, ETH_SRC_OFFSET, 3) = config.oui
        /\ Rd16(data, ETH_TYPE_OFFSET) = ETH_P_IP
        /\ Rd(data, ETH_HDR_LEN) \div 16 = 4 /\ IhlOf(data) >= 5
        /\ Rd(data, ETH_HDR_LEN + IP_PROTO_OFFSET) = IPPROTO_UDP
        /\ config.ito_port # 0 => Rd16(data, u + UDP_DST_PORT_OFFSET) = config.ito_port
        /\ len >= u + UDP_HDR_LEN + ITO_SIG_OFFSET + ITO_SIG_LEN

\* the 7 bytes at offset 5 of the UDP payload
SignatureOf(data) ==
    Slice(data, ETH_HDR_LEN + 4 * IhlOf(data) + UDP_HDR_LEN + ITO_SIG_OFFSET, ITO_SIG_LEN)

\* C13: a frame that passes every structural check is accepted, by either
\* classifier entry point, if and only if its signature is in the set of
\* the configured filter.
C13_FilterSetDecides ==
    (c_out.called /\ StructurallyValid(r_F, r_len, r_cfg))
    => (c_out.accept <=> SignatureOf(r_F) \in FilterSet(r_cfg.sig_filter))

\* C14: for every frame length and content and every configuration, the
\* classifier reads no frame byte at an offset >= the frame length (the
\* UDP destination port at 14 + 4*IHL + 2 included), and returns accept or
\* reject.
C14_NoReadPastLength ==
    c_out.called =>
        /\ \A k \in c_out.reads : k < r_len
        /\ c_out.accept \in BOOLEAN

\* the single-tagged IPv4 test frames with a known signature
VlanTestFrames ==
    {VlanTagged(MkFrame4(LocalMac, 69, sig, 19, 64, FALSE), tpid).data :
        sig \in Signatures, tpid \in {ETH_P_8021Q, ETH_P_8021AD}}

\* offset of the byte of a tagged frame that a full reflection puts at
\* offset k: the IPv4 and UDP fields lie VLAN_HDR_LEN further on
VlanSwapSource(k, ihl) ==
    LET ip == ETH_HDR_LEN + VLAN_HDR_LEN
        u == ip + 4 * ihl
    IN  IF k >= 0 /\ k < 6 THEN k + 6
        ELSE IF k >= 6 /\ k < 12 THEN k - 6
        ELSE IF k >= ip + IP_SRC_OFFSET /\ k < ip + IP_SRC_OFFSET + 4 THEN k + 4
        ELSE IF k >= ip + IP_DST_OFFSET /\ k < ip + IP_DST_OFFSET + 4 THEN k - 4
        ELSE IF k >= u /\ k < u + 2 THEN k + 2
        ELSE IF k >= u + 2 /\ k < u + 4 THEN k - 2
        ELSE k

\* C18: with enable_vlan set, a single-tagged (0x8100 or 0x88A8) IPv4 test
\* frame is accepted as a VLAN frame (IP header at 18), and reflect
\* exchanges the IP addresses at 30/34 and the ports at 18 + 4*IHL and
\* leaves the tag and the inner EtherType as they were; with enable_vlan
\* clear the frame is rejected.
C18_VlanShifted ==
    (/\ c_out.called
     /\ r_fn = "is_ito_packet_extended"
     /\ r_F \in VlanTestFrames
     /\ r_cfg.ito_port \in {0, Rd16(r_F, ETH_HDR_LEN + VLAN_HDR_LEN + 20 + 2)}
     /\ Slice(r_F, ETH_HDR_LEN + VLAN_HDR_LEN + 20 + UDP_HDR_LEN + ITO_SIG_OFFSET,
              ITO_SIG_LEN) \in FilterSet(r_cfg.sig_filter))
    => IF r_cfg.enable_vlan
       THEN /\ c_out.accept /\ c_out.is_vlan /\ ~c_out.is_ipv6
            /\ Len(r_hist) >= 2 =>
                 \A k \in 0..(BufLen - 1) : Rd(r_R1, k) = Rd(r_F, VlanSwapSource(k, 5))
       ELSE ~c_out.accept

\* the classifier entry point of the harness, applied to a frame
ClassifyBy(fn, data, len, config) ==
    IF fn = "is_ito_packet" THEN is_ito_packet(data, len, config)
    ELSE is_ito_packet_extended(data, len, config).accept

\* offset of the UDP destination port of a frame: behind the VLAN tag if
\* there is one, and behind the IPv6 header or the IHL words of the IPv4
\* header
DstPortOffset(data) ==
    LET outer == Rd16(data, ETH_TYPE_OFFSET)
        tagged == outer = ETH_P_8021Q \/ outer = ETH_P_8021AD
        ethertype == IF tagged THEN Rd16(data, ETH_HDR_LEN + 2) ELSE outer
        ip_offset == IF tagged THEN ETH_HDR_LEN + VLAN_HDR_LEN ELSE ETH_HDR_LEN
    IN  IF ethertype = ETH_P_IPV6 THEN ip_offset + IPV6_HDR_LEN + UDP_DST_PORT_OFFSET
        ELSE ip_offset + 4 * (Rd(data, ip_offset) % 16) + UDP_DST_PORT_OFFSET

\* the frame with another destination port, another source MAC
PortVariants(data) ==
    {SetBytes(data, DstPortOffset(data), Bytes16(port)) : port \in {ITO_UDP_PORT, 3843, 0}}
SrcMacVariants(data) ==
    {SetBytes(data, ETH_SRC_OFFSET, mac) : mac \in {PeerMac, OtherMac, BcastMac}}

\* C19: with ito_port = 0 the decision is the same for frames that differ
\* only in the UDP destination port, with filter_oui clear the same for
\* frames that differ only in the source MAC; with ito_port # 0 only
\* frames to that port are accepted, with filter_oui set only frames whose
\* source MAC starts with config.oui.
C19_PortAndOuiFilters ==
    c_out.called =>
        /\ c_out.accept = ClassifyBy(r_fn, r_F, r_len, r_cfg)
        /\ r_cfg.ito_port = 0 =>
              \A v \in PortVariants(r_F) : ClassifyBy(r_fn, v, r_len, r_cfg) = c_out.accept
        /\ ~r_cfg.filter_oui =>
              \A v \in SrcMacVariants(r_F) : ClassifyBy(r_fn, v, r_len, r_cfg) = c_out.accept
        /\ (r_cfg.ito_port # 0 /\ c_out.accept) =>
              Rd16(r_F, DstPortOffset(r_F)) = r_cfg.ito_port
        /\ (r_cfg.filter_oui /\ c_out.accept) =>
              Slice(r_F, ETH_SRC_OFFSET, 3) = r_cfg.oui

\* C19 witness: both filters are on and the frame was accepted; the same
\* frame to another port, and the same frame from another vendor's MAC,
\* are rejected, and both are accepted once the filters are off
C19_Witness ==
    /\ c_out.called /\ c_out.accept
    /\ r_fn = "is_ito_packet"
    /\ r_cfg.ito_port # 0 /\ r_cfg.filter_oui
    /\ LET other_port == SetBytes(r_F, DstPortOffset(r_F), Bytes16(ITO_UDP_PORT))
           other_mac == SetBytes(r_F, ETH_SRC_OFFSET, OtherMac)
           open == [r_cfg EXCEPT !.ito_port = 0, !.filter_oui = FALSE]
       IN  /\ other_port # r_F /\ other_mac # r_F
           /\ ~is_ito_packet(other_port, r_len, r_cfg)
           /\ ~is_ito_packet(other_mac, r_len, r_cfg)
           /\ is_ito_packet(other_port, r_len, open)
           /\ is_ito_packet(other_mac, r_len, open)

(***************************************************************************)
(* Properties of the worker loop                                           *)
(***************************************************************************)
\* buffers of the descriptors of the batch the worker holds
RxAddrs == {pkts_rx[k].data : k \in 1..rcvd}
TxAddrs == {pkts_tx[k].data : k \in 1..num_tx}

\* the iteration that received the batch has run to its end
IterationDone == w_pc = "recv" /\ w_iter > 0

\* C1: when an iteration of the worker loop has ended, every descriptor
\* recv_batch returned has been handed to send_batch within the sent count
\* or to release_batch (no leak), and to release_batch at most once.
C1_NoLeakNoDoubleRelease ==
    IterationDone =>
        \A a \in RxAddrs : g_sendcnt[a] + g_relcnt[a] >= 1 /\ g_relcnt[a] <= 1

\* C4: a send_batch that returns fewer than the num_tx descriptors it was
\* given (0 .. num_tx-1, or a negative error) makes the worker count the
\* descriptors not sent as TX failures.
C4_ShortSendCounted ==
    [][(w_pc = "send" /\ w_pc' = "release" /\ num_tx > 0 /\ w_sent' < num_tx)
        => stats_batch'.err_tx_failed =
             stats_batch.err_tx_failed + (num_tx - Max(w_sent', 0))]_vars

\* C39: after a worker has exited, packets_reflected and bytes_reflected
\* are the number and the total length of the descriptors that send_batch
\* reported as sent (on the generic backend these are the frames on the
\* wire).
C39_ReflectedIsSent ==
    (backend = "generic" /\ w_pc = "done") =>
        /\ wstats.packets_reflected = Len(pctx.wire)
        /\ wstats.bytes_reflected = SumLen(pctx.wire)

\* offset of the received byte that a reflection in the given mode puts at
\* offset k (u: offset of the UDP header)
ModeSwapSource(mode, k, u) ==
    IF k >= 0 /\ k < 6 THEN k + 6
    ELSE IF k >= 6 /\ k < 12 THEN k - 6
    ELSE IF mode >= REFLECT_MODE_MAC_IP /\ k >= 26 /\ k < 30 THEN k + 4
    ELSE IF mode >= REFLECT_MODE_MAC_IP /\ k >= 30 /\ k < 34 THEN k - 4
    ELSE IF mode = REFLECT_MODE_ALL /\ k >= u /\ k < u + 2 THEN k + 2
    ELSE IF mode = REFLECT_MODE_ALL /\ k >= u + 2 /\ k < u + 4 THEN k - 2
    ELSE k

\* C8: every frame the worker hands to send_batch is the received frame
\* with the fields of config.reflect_mode exchanged and no other byte
\* changed (the checksum fields excepted when software_checksum is set).
C8_RewrittenPerMode ==
    w_pc = "send" =>
        \A k \in 1..num_tx :
            LET a == pkts_tx[k].data
                u == ETH_HDR_LEN + 4 * IhlOf(g_rx[a])
            IN  \A off \in 0..(BufLen - 1) :
                    \/ Rd(mem[a], off) = Rd(g_rx[a], ModeSwapSource(cfg.reflect_mode, off, u))
                    \/ cfg.software_checksum /\ off \in ChecksumOffsets(g_rx[a])

\* a counter of the worker: what was flushed to wctx->stats plus what the
\* local batch still holds of it
WorkerCount(name) ==
    wstats[name] + (IF name \in DOMAIN stats_batch THEN stats_batch[name] ELSE 0)

\* frames of the batches received so far that the classify loop has rejected
RejectedSoFar ==
    WorkerCount("packets_received") - WorkerCount("packets_reflected")
    - (IF w_pc = "proc" THEN rcvd - w_i ELSE 0)

\* the per-error counters of the receive path
RxErrorCounters ==
    {"err_too_short", "err_invalid_mac", "err_invalid_ethertype", "err_invalid_protocol",
     "err_invalid_signature"}

RECURSIVE SumCounters(_)
SumCounters(names) ==
    IF names = {} THEN 0
    ELSE LET n == CHOOSE x \in names : TRUE
         IN  WorkerCount(n) + SumCounters(names \ {n})

\* C15: every frame the worker rejects raises exactly one per-error counter
\* of the worker by one (a frame with the wrong destination MAC the bad-MAC
\* counter): the per-error counters add up to the number of rejected
\* frames, and no frame is counted under an error it does not have.
C15_RejectCountedOnce ==
    backend = "generic" =>
        /\ SumCounters(RxErrorCounters) = RejectedSoFar
        /\ WorkerCount("err_too_short") = 0

\* the per-signature counter of a signature type
SigCounter(sig_type) ==
    CASE sig_type = SIG_TYPE_PROBEOT -> "sig_probeot_count"
      [] sig_type = SIG_TYPE_DATAOT -> "sig_dataot_count"
      [] sig_type = SIG_TYPE_LATENCY -> "sig_latency_count"
      [] sig_type = SIG_TYPE_RFC2544 -> "sig_rfc2544_count"
      [] sig_type = SIG_TYPE_Y1564 -> "sig_y1564_count"
      [] OTHER -> "sig_unknown_count"

SigTypes == SIG_TYPE_PROBEOT..SIG_TYPE_UNKNOWN

\* C16: the step in which the worker accepts a frame raises by one the
\* counter of the signature at payload offset 5 (the unknown counter only
\* when none of the five signatures is there) and no other per-signature
\* counter.
C16_SignatureCounted ==
    [][(w_pc = "proc" /\ pkts_tx' # pkts_tx)
        => LET pkt == pkts_rx[w_i + 1]
               found == get_ito_signature_type(mem[pkt.data], pkt.len)
           IN  \A t \in SigTypes :
                  WorkerCount(SigCounter(t))' =
                      WorkerCount(SigCounter(t)) + (IF t = found THEN 1 ELSE 0)]_vars

\* offset of the received byte that a full reflection of an untagged IPv6
\* frame puts at offset k
Ipv6SwapSource(k) ==
    LET a == ETH_HDR_LEN + IPV6_SRC_OFFSET
        b == ETH_HDR_LEN + IPV6_DST_OFFSET
        u == ETH_HDR_LEN + IPV6_HDR_LEN
    IN  IF k >= 0 /\ k < 6 THEN k + 6
        ELSE IF k >= 6 /\ k < 12 THEN k - 6
        ELSE IF k >= a /\ k < a + IPV6_ADDR_LEN THEN k + IPV6_ADDR_LEN
        ELSE IF k >= b /\ k < b + IPV6_ADDR_LEN THEN k - IPV6_ADDR_LEN
        ELSE IF k >= u /\ k < u + 2 THEN k + 2
        ELSE IF k >= u + 2 /\ k < u + 4 THEN k - 2
        ELSE k

\* the descriptors of the batch whose buffer received the given frame
RxOf(f) == {k \in 1..rcvd : g_rx[pkts_rx[k].data] = f.data /\ pkts_rx[k].len = f.len}

\* the descriptor was queued for send_batch
Queued(pkt) == \E j \in 1..num_tx : pkts_tx[j] = pkt

\* C17: when the classify loop has gone through a batch, with enable_ipv6
\* set and mode MAC+IP+UDP every received IPv6 PROBEOT frame addressed to
\* the local MAC is queued for transmission with MACs, IPv6 addresses and
\* UDP ports exchanged; with enable_ipv6 clear it is not queued.
C17_Ipv6Reflected ==
    (w_pc = "send" /\ cfg.reflect_mode = REFLECT_MODE_ALL)
    => \A k \in RxOf(Ipv6ProbeFrame) :
          IF cfg.enable_ipv6
          THEN /\ Queued(pkts_rx[k])
               /\ \A off \in 0..(BufLen - 1) :
                     Rd(mem[pkts_rx[k].data], off)
                        = Rd(Ipv6ProbeFrame.data, Ipv6SwapSource(off))
          ELSE ~Queued(pkts_rx[k])

\* the counters of reflector_stats_t
StatCounters == DOMAIN ZeroStats \ {"latency"}

RECURSIVE SumOfCounter(_, _)
\* sum over the workers of one counter
SumOfCounter(workers, name) ==
    IF workers = <<>> THEN 0 ELSE Head(workers)[name] + SumOfCounter(Tail(workers), name)

\* C20: with the workers quiescent, every counter reflector_get_stats
\* returns (packet and byte totals, the six per-signature counts, the
\* per-error counts, the legacy counters) is the sum over the workers of
\* that counter.
C20_AggregateIsSum ==
    api_stats.valid =>
        \A name \in StatCounters :
            api_stats.stats[name] = SumOfCounter(WorkerStats, name)

(***************************************************************************)
(* Properties of the statistics of several workers                         *)
(***************************************************************************)
RECURSIVE BagSum(_, _, _)
\* the latencies of a bag from the given value on: their number, or
\* their sum
BagSum(bag, from, byValue) ==
    IF from > MaxLatency THEN 0
    ELSE bag[from] * (IF byValue THEN from ELSE 1) + BagSum(bag, from + 1, byValue)

\* the reservoir of a bag of latencies: count, sum, least, greatest, average
ReservoirOf(bag) ==
    LET count == BagSum(bag, 1, FALSE)
        total == BagSum(bag, 1, TRUE)
        held == {v \in 1..MaxLatency : bag[v] > 0}
    IN  IF count = 0 THEN ZeroLatency
        ELSE [count |-> count, total_ns |-> total,
              min_ns |-> CHOOSE v \in held : \A u \in held : v <= u,
              max_ns |-> CHOOSE v \in held : \A u \in held : v >= u,
              avg_ns |-> total \div count]

\* C21: whatever the split of the latencies into batches and over the
\* workers, once every batch that holds one has been flushed and no worker
\* is inside a flush, the reservoir reflector_get_stats returns has their
\* number as count, their sum as total_ns, the least as min_ns, the
\* greatest as max_ns and total_ns / count as avg_ns (all zero when there
\* was none: batches and workers without latencies leave it alone).
C21_ReservoirExact ==
    (api.pc = "done" /\ api_stats.valid /\ g_sup.quiet /\ g_sup.begin.flushed)
    => api_stats.stats.latency = ReservoirOf(g_sup.begin.samples)

\* MaxSamples latencies measured by both workers, one of which also
\* received a frame it did not reflect, aggregated
C21_Witness ==
    /\ api.pc = "done" /\ api_stats.valid /\ g_sup.quiet /\ g_sup.begin.flushed
    /\ api_stats.stats.latency.count = MaxSamples
    /\ api_stats.stats.latency.min_ns < api_stats.stats.latency.max_ns
    /\ \A i \in 1..StatsWorkers : g_sup.begin.stats[i].latency.count > 0
    /\ \E i \in 1..StatsWorkers :
          g_sup.begin.stats[i].packets_received > g_sup.begin.stats[i].packets_reflected

\* the counters of which reflector_get_stats returns the sum over the
\* workers
RaceCounters ==
    {"packets_received", "packets_reflected", "bytes_received", "bytes_reflected",
     "sig_probeot_count"}

\* C22: a reflector_get_stats that ran while workers flushed returns, for
\* every counter and for the latency count and sum, a value between the
\* aggregate at the start of the call and the aggregate now (which is at
\* least the one at its end), and, when it returns a latency count above
\* zero, a min_ns and a max_ns that are latencies of frames measured so far
C22_SnapshotBetween ==
    (api.pc = "done" /\ api_stats.valid)
    => LET got == api_stats.stats
           now_ == reflector_get_stats([i \in 1..StatsWorkers |-> wctx[i].stats])
           was == reflector_get_stats(g_sup.begin.stats)
           seen == {v \in 1..MaxLatency : g_sup.samples[v] > 0}
       IN  /\ \A c \in RaceCounters : was[c] <= got[c] /\ got[c] <= now_[c]
           /\ was.latency.count <= got.latency.count
           /\ got.latency.count <= now_.latency.count
           /\ was.latency.total_ns <= got.latency.total_ns
           /\ got.latency.total_ns <= now_.latency.total_ns
           /\ got.latency.count > 0
                => got.latency.min_ns \in seen /\ got.latency.max_ns \in seen

\* C23: counts taken into the local batch are flushed into the stats of
\* the worker before it has ended more than STATS_FLUSH_BATCHES iterations
\* of its loop, the one that took them included, with them held
C23_FlushedInTime == g_held <= STATS_FLUSH_BATCHES

\* C24: once a worker has returned, its stats hold as packets_received
\* the number of descriptors its recv_batch calls returned and as
\* bytes_received the sum of their lengths
C24_ExitedWorkerAccounts ==
    \A i \in DOMAIN wctx :
        wctx[i].pc = "done"
        => /\ wctx[i].stats.packets_received = g_sup.recv[i].pkts
           /\ wctx[i].stats.bytes_received = g_sup.recv[i].bytes

\* a worker returned after three batches: STATS_FLUSH_BATCHES of them went
\* with the periodic flush, the last one with the final flush
C24_Witness ==
    \E i \in DOMAIN wctx :
        /\ wctx[i].pc = "done"
        /\ wctx[i].stats.packets_reflected = 0
        /\ wctx[i].stats.packets_received = STATS_FLUSH_BATCHES + 1
        /\ g_sup.recv[i].pkts = STATS_FLUSH_BATCHES + 1

C26_WorkerCap ==
    /\ (g_sup.set.called /\ g_sup.set.ret = 0) => rctx.config.num_workers <= MAX_WORKERS
    /\ rctx.running => rctx.num_workers <= MAX_WORKERS
    /\ Len(wctx) <= MAX_WORKERS
    /\ \A i \in DOMAIN wctx :
          wctx[i].pc # "none" => wctx[i].worker_id = i - 1 /\ wctx[i].queue_id = i - 1

\* reflector_stop has cleared the flag of worker i, whose thread is in its
\* loop
Stopping(i) ==
    /\ i \in DOMAIN wctx
    /\ ~wctx[i].running /\ wctx[i].pc \in {"test", "go", "recv", "exit"}

\* C27: once reflector_stop has cleared its flag, a worker starts at most
\* one more iteration and eventually has done its final flush and
\* returned; and reflector_stop goes past its joins only when every thread
\* that was created has returned
C27_WorkersLeave ==
    /\ [](\A i \in DOMAIN wctx : g_sup.after[i] <= 1)
    /\ [](api.pc \in {"cleanup", "free"}
            => \A i \in DOMAIN wctx : wctx[i].pc \in {"none", "done"})
    /\ \A i \in 1..MAX_WORKERS + 1 :
          Stopping(i) ~> (i \in DOMAIN wctx /\ wctx[i].pc = "done")

\* reflector_stop is past its joins, every worker of a full set has
\* returned, one of them after an iteration it began with the flag cleared
C27_Witness ==
    /\ api.pc = "cleanup" /\ ~api.in_start /\ Len(wctx) > 1
    /\ \A i \in DOMAIN wctx : wctx[i].pc = "done"
    /\ \E i \in DOMAIN wctx : g_sup.after[i] = 1

\* C28: the platform cleanup leaves pctx cleared, and called again on the
\* context it left it releases nothing and changes nothing; over a run
\* with further reflector_stop and reflector_cleanup calls the resources
\* of a worker are released at most once
C28_CleanupIdempotent ==
    /\ \A i \in DOMAIN wctx :
          LET once == platform_cleanup(wctx[i])
              twice == platform_cleanup(once.wctx)
          IN  /\ once.wctx.pctx = "null"
              /\ ~twice.released /\ twice.wctx = once.wctx
    /\ \A i \in 1..MAX_WORKERS + 1 : g_sup.closes[i] <= 1

\* reflector_stop has released the contexts of two workers and a second
\* reflector_stop or reflector_cleanup has returned since
C28_Witness ==
    /\ api.pc = "idle" /\ g_sup.stops = 2 /\ ~rctx.workers
    /\ g_sup.closes[1] = 1 /\ g_sup.closes[2] = 1

\* C31: the one-time setup of the AF_XDP backend (filter program and maps)
\* runs at most once per start and only in the init of worker 0; while the
\* reflector is running, a worker i > 0 with an AF_XDP context has taken
\* the shared handles after worker 0's init had completed, and holds the
\* same handles as worker 0.
C31_SharedSetupOnce ==
    /\ g_sup.start.setups.count <= 1 /\ ~g_sup.start.setups.other
    /\ rctx.running =>
          \A i \in DOMAIN wctx :
              (i > 1 /\ wctx[i].ops = "xdp" /\ wctx[i].pctx = "live") =>
                  /\ wctx[1].ops = "xdp" /\ wctx[1].pctx = "live"
                  /\ wctx[i].handles = wctx[1].handles

\* C32: reflector_start drops privileges once, when the backend context of
\* every worker has been initialised and no worker thread has been created.
C32_DropAfterInit ==
    /\ g_sup.start.drop.count <= 1
    /\ g_sup.start.drop.count = 1 =>
          /\ g_sup.start.drop.inited = rctx.num_workers
          /\ g_sup.start.drop.threads = 0

\* C35: every backend operation performed on a worker's context (those of
\* a loop iteration, and cleanup) is one of the backend that initialised
\* the context, also after a fallback to AF_PACKET.
C35_OwnBackendOnly == ~g_sup.start.foreign

\* C36: the reflector_stop that reflector_start runs when the init or the
\* thread creation of a worker has failed joins no thread that was not
\* created and runs cleanup on no context the failed init has freed.
C36_FailedStartUnwinds ==
    api.in_start => ~g_sup.start.bad.join /\ ~g_sup.start.bad.cleanup

\* C40: reflector_get_stats and reflector_reset_stats iterate over as many
\* workers as the worker array that exists holds: none before the first
\* start, after reflector_stop and after a failed start.
C40_StatsIndexLiveWorkers ==
    g_sup.start.stat.called =>
        g_sup.start.stat.indexed = g_sup.start.stat.present

(***************************************************************************)
(* Properties of the order of the frames                                  *)
(***************************************************************************)
RECURSIVE InOrder(_, _)
\* the sequence a can be read off the sequence b from left to right
InOrder(a, b) ==
    IF a = <<>> THEN TRUE
    ELSE IF b = <<>> THEN FALSE
    ELSE IF Head(a) = Head(b) THEN InOrder(Tail(a), Tail(b))
    ELSE InOrder(a, Tail(b))

RECURSIVE WireFrames(_)
\* the frames of the write() calls the device took, in the order it took
\* them
WireFrames(wire) ==
    IF wire = <<>> THEN <<>>
    ELSE [k \in 1..Len(Head(wire)) |-> Head(wire)[k].data] \o WireFrames(Tail(wire))

\* C29: the TX list holds accepted descriptors in the order recv_batch
\* returned them, and the frames the BPF device took are in the order in
\* which they were handed to send_batch
C29_FifoPerWorker ==
    /\ w_pc \in {"proc", "send", "release"} => InOrder(pkts_tx, pkts_rx)
    /\ InOrder(WireFrames(pctx.wire), pctx.offered)

\* C30: with the BPF backend the bytes behind every descriptor the worker
\* has still to classify, or to send, are those of the frame it was
\* returned for; when the worker calls recv_batch again every descriptor of
\* the batch before has been classified and every accepted one handed to
\* send_batch; and a step refills the read buffer only when every record
\* of the previous read has been returned
C30_NoStaleDescriptor ==
    /\ [](/\ w_pc = "proc"
             => \A k \in (w_i + 1)..Len(pkts_rx) :
                   mem[pkts_rx[k].data] = g_rx[pkts_rx[k].data]
          /\ w_pc = "send"
             => \A k \in 1..Len(pkts_tx) :
                   mem[pkts_tx[k].data]
                     = WorkerReflect(g_rx[pkts_tx[k].data], pkts_tx[k].len)
          /\ w_pc = "recv"
             => /\ w_i = Len(pkts_rx)
                /\ Len(pctx.offered)
                     = wstats.packets_reflected + stats_batch.packets_reflected)
    /\ [][(\/ pctx'.read_len # pctx.read_len
           \/ pctx'.snaplen # pctx.snaplen
           \/ (w_pc = "recv" /\ mem' # mem))
          => pctx.read_offset >= pctx.read_len]_vars

\* the second batch is what the first left of a read of more records than
\* a batch holds
C30_Witness ==
    /\ w_pc = "proc" /\ w_iter = 2
    /\ pctx.read_len = BATCH_SIZE + 1 /\ pctx.read_offset = pctx.read_len
    /\ Len(pkts_rx) = 1

\* the unread remainder of the read buffer holds no complete record
BpfLeftover ==
    /\ backend = "bpf"
    /\ pctx.read_offset < pctx.read_len
    /\ pctx.read_offset >= Len(pctx.snaplen)

\* C38: the BPF recv_batch does not get stuck on leftover bytes: when the
\* worker is about to call recv_batch with a remainder that holds no
\* complete record, and is not told to stop, a later recv_batch returns
\* frames again.
C38_LeftoverRefilled ==
    (BpfLeftover /\ w_pc = "recv" /\ running /\ w_iter < MaxIter)
        ~> (w_pc = "proc" \/ ~running)

(***************************************************************************)
(* Properties of the AF_XDP platform                                       *)
(***************************************************************************)
\* the frame addresses on a ring of descriptors
RingAddrs(ring) == {ring[k].addr : k \in 1..Len(ring)}

\* C2: a frame address that send_batch has put on the TX ring is not on
\* FILL while it is still on TX (it has not come back on COMPLETION).
C2_NoFillWhileInFlight ==
    backend = "xdp" =>
        \A k \in 1..Len(pctx.fq) : pctx.fq[k] \notin RingAddrs(pctx.tx)

\* C6: the bytes of a received frame that the worker's classify call
\* rejects (one with the wrong destination MAC) are never transmitted.
C6_RejectedNeverTransmitted ==
    backend = "xdp" =>
        \A k \in DOMAIN pctx.wire :
            \A f \in XdpFrames :
                ~is_ito_packet(f.data, f.len, seenCfg) => pctx.wire[k].data # f.data

\* the number of entries of a ring of addresses that are the address a
Occurrences(ring, a) == Cardinality({k \in DOMAIN ring : ring[k] = a})

\* the number of descriptors of a ring that hold the address a
DescOccurrences(ring, a) == Cardinality({k \in DOMAIN ring : ring[k].addr = a})

\* C34: the UMEM frames posted to FILL at init are conserved: between two
\* iterations of the worker loop, when the worker holds no descriptor, each
\* of them is on exactly one of the FILL, RX, TX and COMPLETION rings,
\* whatever send_batch returned and whether or not the FILL and TX
\* reservations succeeded.
C34_FramesConserved ==
    (backend = "xdp" /\ w_pc = "recv") =>
        \A a \in 0..(UmemFrames \div 2 - 1) :
            Occurrences(pctx.fq, a) + DescOccurrences(pctx.rx, a)
                + DescOccurrences(pctx.tx, a) + Occurrences(pctx.cq, a) = 1

(***************************************************************************)
(* Properties of the AF_PACKET platform                                    *)
(***************************************************************************)
\* the descriptors the worker has not finished with: those the classify
\* loop has yet to reach, and those queued for the send
PendingPkts ==
    {pkts_rx[k] : k \in {j \in 1..rcvd : w_pc = "proc" /\ j > w_i}}
    \cup {pkts_tx[k] : k \in {j \in 1..num_tx : w_pc \in {"proc", "send"}}}

\* C3: a block of the TPACKET_V3 ring is the kernel's only when the worker
\* has finished with every packet that points into it: no descriptor of
\* the batch that is still to be classified, reflected or sent lies in a
\* block that was flipped back, and neither does the block recv_batch has
\* returned only part of.
C3_BlockReleasedAfterUse ==
    backend = "pkt_v3" =>
        /\ \A p \in PendingPkts :
              pctx.blocks[BlockOf(p.addr)].block_status = "TP_STATUS_USER"
        /\ pctx.current_block_offset > 0 =>
              pctx.blocks[pctx.current_block_idx].block_status = "TP_STATUS_USER"

\* C33: a block of the TPACKET_V3 ring is flipped back to the kernel at
\* most once for each time the kernel hands it to user space, counted over
\* all release_batch calls (the single-descriptor releases of rejected
\* frames and the releases after a send).
C33_FlipOncePerHandover ==
    backend = "pkt_v3" =>
        \A b \in DOMAIN pctx.blocks : pctx.blocks[b].flips <= 1

\* C37: every frame the kernel places in a block of the TPACKET_V3 ring is
\* delivered exactly once: the descriptors recv_batch has returned for the
\* block since the kernel handed it over are those of its first frames, one
\* each and in the order of the block, and once the cursor has walked on to
\* the next block they are those of all its frames.
C37_DeliveredExactlyOnce ==
    backend = "pkt_v3" =>
        \A b \in DOMAIN pctx.blocks :
            LET blk == pctx.blocks[b]
            IN  /\ Len(blk.returned) <= blk.num_pkts
                /\ \A k \in 1..Len(blk.returned) : blk.returned[k] = k - 1
                /\ blk.left => Len(blk.returned) = blk.num_pkts

(***************************************************************************)
(* Properties of the BPF platform                                          *)
(***************************************************************************)
\* C5: the value send_batch returns is the number of descriptors whose
\* bytes a successful write() handed to the kernel during the call, and
\* these are the leading descriptors of the batch.
C5_SentCountIsHandedPrefix ==
    (backend = "bpf" /\ w_pc = "release" /\ num_tx > 0) =>
        pctx.handed = 1..w_sent

====
